---- MODULE Spec2Model ----
(***************************************************************************)
(* Model of the terminal session manager of serena                         *)
(* (src/src/serena/terminal/terminal_manager.py, terminal_handlers.py).    *)
(*                                                                         *)
(* One execute_command call c creates at most one TerminalSession, so the  *)
(* call, its session object, its Popen object, its child process and its   *)
(* collector thread are all indexed by the same c in SIDS.  The command    *)
(* string of call c is modelled by c itself.                               *)
(*                                                                         *)
(* A text (Python str) is a sequence of one-character strings; the few     *)
(* fixed literals the code formats are kept as single tokens.              *)
(*                                                                         *)
(* Granularity: every `with self._lock:` block is one atomic step.  A step *)
(* that only touches thread-local data is merged with the next step of the *)
(* same thread that touches shared data (the pipe has a single reader, so  *)
(* readline()/read() are merged with the append that follows them).        *)
(* time.sleep() gives no synchronisation: it is only a scheduling point.   *)
(***************************************************************************)
EXTENDS Integers, Sequences, FiniteSets, TLC

\* ---------------------------------------------------------------- bounds
MaxSessions == 2   \* execute_command calls made in one behaviour
MaxPid == 2        \* pids the OS hands out: 1..MaxPid
MaxCap == 1        \* largest max_completed_sessions the constructor is given
MaxLines == 1      \* lines written by all children together (Spec, SpecTerm)
MaxTimeout == 1    \* largest timeout_ms of execute, in 100 ms sleeps
MaxReadSessions == 1  \* execute_command calls made in one behaviour of SpecRead
MaxReadLines == 2  \* lines written by all children together (SpecRead)
MaxPolls == 1      \* largest timeout_ms of read_output, in 300 ms sleeps
MaxReaders == 2    \* callers of get_new_output (SpecReaders)
MaxReads == 3      \* get_new_output calls that find the session active (SpecReaders)
MaxChunks == 4     \* pieces a command given to validate_command is made of

SIDS == 1..MaxSessions
PIDS == 1..MaxPid

\* Optional[T]: None is the empty sequence, a value x is <<x>>.
None == <<>>
Some(x) == <<x>>

\* Exit statuses a child chooses by itself; -9 is Popen's returncode of a
\* child ended by SIGKILL.
ExitCodes == {0, 1}
SigKillCode == 0 - 9

\* The lines a child can write: one with visible text, one of blanks only.
Lines == { <<"a", "\n">>, <<" ", "\n">> }

\* ------------------------------------------------------------------ text
RECURSIVE Join(_)
\* ''.join(parts)
Join(parts) == IF parts = <<>> THEN <<>> ELSE Head(parts) \o Join(Tail(parts))

IsSpace(ch) == ch \in {" ", "\n", "\t"}

RECURSIVE LStrip(_)
LStrip(t) == IF t # <<>> /\ IsSpace(Head(t)) THEN LStrip(Tail(t)) ELSE t

RECURSIVE RStrip(_)
RStrip(t) ==
  IF t # <<>> /\ IsSpace(t[Len(t)]) THEN RStrip(SubSeq(t, 1, Len(t) - 1)) ELSE t

\* str.strip()
Strip(t) == RStrip(LStrip(t))

IsPrefix(a, b) == Len(a) <= Len(b) /\ SubSeq(b, 1, Len(a)) = a

\* ------------------------------------------------- the admission filter
\* str.lower() on the ASCII letters
UpperCase == << "A", "B", "C", "D", "E", "F", "G", "H", "I", "J", "K", "L", "M",
                "N", "O", "P", "Q", "R", "S", "T", "U", "V", "W", "X", "Y", "Z" >>
LowerCase == << "a", "b", "c", "d", "e", "f", "g", "h", "i", "j", "k", "l", "m",
                "n", "o", "p", "q", "r", "s", "t", "u", "v", "w", "x", "y", "z" >>

LowerChar(ch) ==
  IF \E i \in 1..Len(UpperCase) : UpperCase[i] = ch
  THEN LowerCase[CHOOSE i \in 1..Len(UpperCase) : UpperCase[i] = ch]
  ELSE ch

RECURSIVE Lower(_)
Lower(t) == IF t = <<>> THEN <<>> ELSE << LowerChar(Head(t)) >> \o Lower(Tail(t))

\* text.startswith(sep)
StartsWith(text, sep) == Len(sep) <= Len(text) /\ SubSeq(text, 1, Len(sep)) = sep

\* text.split(sep): cut at the occurrences of sep found from left to right; cur is
\* the part being collected.
RECURSIVE SplitFrom(_, _, _)
SplitFrom(text, sep, cur) ==
  IF text = <<>> THEN << cur >>
  ELSE IF StartsWith(text, sep)
       THEN << cur >> \o SplitFrom(SubSeq(text, Len(sep) + 1, Len(text)), sep, <<>>)
       ELSE SplitFrom(Tail(text), sep, Append(cur, Head(text)))

Split(text, sep) == SplitFrom(text, sep, <<>>)

\* command.split()[0] if command.split() else "": the first run of characters that
\* are not whitespace.
RECURSIVE TakeWord(_)
TakeWord(t) == IF t = <<>> \/ IsSpace(Head(t)) THEN <<>> ELSE << Head(t) >> \o TakeWord(Tail(t))

FirstWord(t) == TakeWord(LStrip(t))

\* shlex.split(command): shlex in POSIX mode with whitespace_split and no
\* commenters.  The state of read_token is "ws" (' '), "word" ('a'), a quote
\* character or "esc" (the escape character); esc is escapedstate.  The value is
\* the list of tokens, or the ValueError raised at the end of the text inside a
\* quotation or after an escape character.
ShlexWhitespace == { " ", "\t", "\r", "\n" }
ShlexQuotes == { "'", "\"" }
ShlexEscape == "\\"
ShlexEscapedQuotes == { "\"" }

ValueError == [ok |-> FALSE, tokens |-> <<>>]

RECURSIVE ReadTokens(_, _, _, _, _, _)
ReadTokens(text, state, token, quoted, esc, acc) ==
  IF text = <<>>
  THEN IF state \in ShlexQuotes \/ state = "esc"
       THEN ValueError
       ELSE [ok |-> TRUE,
             tokens |-> IF token # <<>> \/ quoted THEN Append(acc, token) ELSE acc]
  ELSE LET nextchar == Head(text)
           rest == Tail(text)
       IN  CASE state = "ws" ->
                  IF nextchar \in ShlexWhitespace
                  THEN ReadTokens(rest, "ws", token, quoted, esc, acc)
                  ELSE IF nextchar = ShlexEscape
                  THEN ReadTokens(rest, "esc", token, quoted, "word", acc)
                  ELSE IF nextchar \in ShlexQuotes
                  THEN ReadTokens(rest, nextchar, token, TRUE, esc, acc)
                  ELSE ReadTokens(rest, "word", << nextchar >>, quoted, esc, acc)
            [] state \in ShlexQuotes ->
                  IF nextchar = state
                  THEN ReadTokens(rest, "word", token, TRUE, esc, acc)
                  ELSE IF nextchar = ShlexEscape /\ state \in ShlexEscapedQuotes
                  THEN ReadTokens(rest, "esc", token, TRUE, state, acc)
                  ELSE ReadTokens(rest, state, Append(token, nextchar), TRUE, esc, acc)
            [] state = "esc" ->
                  ReadTokens(rest, esc,
                             IF esc \in ShlexQuotes /\ nextchar # ShlexEscape /\ nextchar # esc
                             THEN token \o << ShlexEscape, nextchar >>
                             ELSE Append(token, nextchar),
                             quoted, esc, acc)
            [] OTHER ->
                  IF nextchar \in ShlexWhitespace
                  THEN IF token # <<>> \/ quoted
                       THEN ReadTokens(rest, "ws", <<>>, FALSE, esc, Append(acc, token))
                       ELSE ReadTokens(rest, "ws", token, quoted, esc, acc)
                  ELSE IF nextchar \in ShlexQuotes
                  THEN ReadTokens(rest, nextchar, token, TRUE, esc, acc)
                  ELSE IF nextchar = ShlexEscape
                  THEN ReadTokens(rest, "esc", token, quoted, "word", acc)
                  ELSE ReadTokens(rest, "word", Append(token, nextchar), quoted, esc, acc)

ShlexSplit(text) == ReadTokens(text, "ws", <<>>, FALSE, "ws", <<>>)

\* _get_default_blocked_commands()
DefaultBlockedCommands == {
  << "m", "k", "f", "s" >>,
  << "f", "o", "r", "m", "a", "t" >>,
  << "m", "o", "u", "n", "t" >>,
  << "u", "m", "o", "u", "n", "t" >>,
  << "f", "d", "i", "s", "k" >>,
  << "d", "d" >>,
  << "p", "a", "r", "t", "e", "d" >>,
  << "d", "i", "s", "k", "p", "a", "r", "t" >>,
  << "f", "s", "c", "k" >>,
  << "e", "2", "f", "s", "c", "k" >>,
  << "g", "p", "a", "r", "t", "e", "d" >>,
  << "s", "u", "d", "o" >>,
  << "s", "u" >>,
  << "p", "a", "s", "s", "w", "d" >>,
  << "a", "d", "d", "u", "s", "e", "r" >>,
  << "u", "s", "e", "r", "a", "d", "d" >>,
  << "u", "s", "e", "r", "m", "o", "d" >>,
  << "g", "r", "o", "u", "p", "a", "d", "d" >>,
  << "c", "h", "s", "h" >>,
  << "v", "i", "s", "u", "d", "o" >>,
  << "d", "e", "l", "u", "s", "e", "r" >>,
  << "u", "s", "e", "r", "d", "e", "l" >>,
  << "s", "h", "u", "t", "d", "o", "w", "n" >>,
  << "r", "e", "b", "o", "o", "t" >>,
  << "h", "a", "l", "t" >>,
  << "p", "o", "w", "e", "r", "o", "f", "f" >>,
  << "i", "n", "i", "t" >>,
  << "s", "y", "s", "t", "e", "m", "c", "t", "l" >>,
  << "s", "e", "r", "v", "i", "c", "e" >>,
  << "c", "h", "k", "c", "o", "n", "f", "i", "g" >>,
  << "c", "h", "m", "o", "d", " ", "7", "7", "7" >>,
  << "c", "h", "o", "w", "n" >>,
  << "r", "m", " ", "-", "r", "f" >>,
  << "d", "e", "l", " ", "/", "s" >>,
  << "d", "e", "l", "t", "r", "e", "e" >>,
  << "f", "o", "r", "m", "a", "t", " ", "c", ":" >>,
  << "r", "d", " ", "/", "s" >>,
  << "i", "p", "t", "a", "b", "l", "e", "s" >>,
  << "f", "i", "r", "e", "w", "a", "l", "l" >>,
  << "n", "e", "t", "s", "h" >>,
  << "u", "f", "w" >>,
  << "f", "a", "i", "l", "2", "b", "a", "n" >>,
  << "s", "f", "c" >>,
  << "b", "c", "d", "e", "d", "i", "t" >>,
  << "r", "e", "g", " ", "d", "e", "l", "e", "t", "e" >>,
  << "n", "e", "t", " ", "u", "s", "e", "r" >>,
  << "s", "c", " ", "d", "e", "l", "e", "t", "e" >>,
  << "r", "u", "n", "a", "s" >>,
  << "c", "i", "p", "h", "e", "r" >>,
  << "t", "a", "k", "e", "o", "w", "n" >>,
  << "i", "c", "a", "c", "l", "s" >> }


\* get_base_command(command)
GetBaseCommandWhole(command) == Lower(Strip(command))
GetBaseCommandFallback(command) == Lower(FirstWord(command))
GetBaseCommand(command) ==
  LET stripped == Strip(command)
      split == ShlexSplit(stripped)
  IN  IF stripped = <<>> THEN <<>>
      ELSE IF ~split.ok THEN GetBaseCommandFallback(stripped)
      ELSE IF split.tokens = <<>> THEN <<>>
      ELSE Lower(split.tokens[1])

\* separators = [';', '&&', '||', '|', '&']
Separators == << << ";" >>, << "&", "&" >>, << "|", "|" >>, << "|" >>, << "&" >> >>

\* new_parts.extend(part.split(separator)) for every part
RECURSIVE SplitParts(_, _)
SplitParts(parts, sep) ==
  IF parts = <<>> THEN <<>> ELSE Split(Head(parts), sep) \o SplitParts(Tail(parts), sep)

RECURSIVE SplitAll(_, _)
SplitAll(parts, seps) ==
  IF seps = <<>> THEN parts ELSE SplitAll(SplitParts(parts, Head(seps)), Tail(seps))

\* extract_commands(command_string): the set behind list(set(commands))
ExtractCommands(command_string) ==
  LET parts == SplitAll(<< command_string >>, Separators)
  IN  { GetBaseCommand(Strip(parts[i])) : i \in 1..Len(parts) } \ { <<>> }

\* list(set(commands)): the set's elements in every order a set may iterate in
Orders(S) ==
  { o \in [1..Cardinality(S) -> S] : \A i, j \in 1..Cardinality(S) : o[i] = o[j] => i = j }

\* re.search(pattern, text) for patterns made of literal characters, \s+, \s* and .*
ReSpace == { " ", "\t", "\n", "\r" }

RECURSIVE ReMatch(_, _)
ReMatch(pattern, text) ==
  IF pattern = <<>> THEN TRUE
  ELSE LET e == Head(pattern)
       IN  CASE e.kind = "lit" ->
                  text # <<>> /\ Head(text) = e.ch /\ ReMatch(Tail(pattern), Tail(text))
            [] e.kind = "s+" ->
                  /\ text # <<>>
                  /\ Head(text) \in ReSpace
                  /\ (ReMatch(Tail(pattern), Tail(text)) \/ ReMatch(pattern, Tail(text)))
            [] e.kind = "s*" ->
                  \/ ReMatch(Tail(pattern), text)
                  \/ text # <<>> /\ Head(text) \in ReSpace /\ ReMatch(pattern, Tail(text))
            [] OTHER ->
                  \/ ReMatch(Tail(pattern), text)
                  \/ text # <<>> /\ Head(text) # "\n" /\ ReMatch(pattern, Tail(text))

ReSearch(pattern, text) ==
  \E i \in 1..(Len(text) + 1) : ReMatch(pattern, SubSeq(text, i, Len(text)))

\* dangerous_patterns
DangerousPatterns == {

  \* rm\s+-rf\s+/
  << [kind |-> "lit", ch |-> "r"],
       [kind |-> "lit", ch |-> "m"],
       [kind |-> "s+", ch |-> ""],
       [kind |-> "lit", ch |-> "-"],
       [kind |-> "lit", ch |-> "r"],
       [kind |-> "lit", ch |-> "f"],
       [kind |-> "s+", ch |-> ""],
       [kind |-> "lit", ch |-> "/"] >>,
  \* del\s+/s\s+c:
  << [kind |-> "lit", ch |-> "d"],
       [kind |-> "lit", ch |-> "e"],
       [kind |-> "lit", ch |-> "l"],
       [kind |-> "s+", ch |-> ""],
       [kind |-> "lit", ch |-> "/"],
       [kind |-> "lit", ch |-> "s"],
       [kind |-> "s+", ch |-> ""],
       [kind |-> "lit", ch |-> "c"],
       [kind |-> "lit", ch |-> ":"] >>,
  \* format\s+c:
  << [kind |-> "lit", ch |-> "f"],
       [kind |-> "lit", ch |-> "o"],
       [kind |-> "lit", ch |-> "r"],
       [kind |-> "lit", ch |-> "m"],
       [kind |-> "lit", ch |-> "a"],
       [kind |-> "lit", ch |-> "t"],
       [kind |-> "s+", ch |-> ""],
       [kind |-> "lit", ch |-> "c"],
       [kind |-> "lit", ch |-> ":"] >>,
  \* dd\s+if=.*of=/dev
  << [kind |-> "lit", ch |-> "d"],
       [kind |-> "lit", ch |-> "d"],
       [kind |-> "s+", ch |-> ""],
       [kind |-> "lit", ch |-> "i"],
       [kind |-> "lit", ch |-> "f"],
       [kind |-> "lit", ch |-> "="],
       [kind |-> ".*", ch |-> ""],
       [kind |-> "lit", ch |-> "o"],
       [kind |-> "lit", ch |-> "f"],
       [kind |-> "lit", ch |-> "="],
       [kind |-> "lit", ch |-> "/"],
       [kind |-> "lit", ch |-> "d"],
       [kind |-> "lit", ch |-> "e"],
       [kind |-> "lit", ch |-> "v"] >>,
  \* >\s*/dev/
  << [kind |-> "lit", ch |-> ">"],
       [kind |-> "s*", ch |-> ""],
       [kind |-> "lit", ch |-> "/"],
       [kind |-> "lit", ch |-> "d"],
       [kind |-> "lit", ch |-> "e"],
       [kind |-> "lit", ch |-> "v"],
       [kind |-> "lit", ch |-> "/"] >>,
  \* sudo\s+rm
  << [kind |-> "lit", ch |-> "s"],
       [kind |-> "lit", ch |-> "u"],
       [kind |-> "lit", ch |-> "d"],
       [kind |-> "lit", ch |-> "o"],
       [kind |-> "s+", ch |-> ""],
       [kind |-> "lit", ch |-> "r"],
       [kind |-> "lit", ch |-> "m"] >> }


\* _check_dangerous_patterns(command)
CheckDangerousPatterns(command) ==
  \E pattern \in DangerousPatterns : ReSearch(pattern, Lower(command))

\* CommandValidationResult(is_valid, reason)
CommandValidationResult(is_valid, reason) == [is_valid |-> is_valid, reason |-> reason]

BlockedReason(cmd) == << "Blocked command: " >> \o cmd
DangerousReason == << "Dangerous command pattern detected" >>
EmptyReason == << "Empty command not allowed" >>
ValidationErrorReason == << "Validation error: <exception>" >>

\* for cmd in commands: ... ; return CommandValidationResult(True)
ValidateLoopFirstOnly(commands, command, blocked) ==
  IF commands = <<>> THEN CommandValidationResult(TRUE, <<>>)
  ELSE IF Head(commands) \in blocked
       THEN CommandValidationResult(FALSE, BlockedReason(Head(commands)))
       ELSE IF CheckDangerousPatterns(command)
            THEN CommandValidationResult(FALSE, DangerousReason)
            ELSE CommandValidationResult(TRUE, <<>>)

RECURSIVE ValidateLoop(_, _, _)
ValidateLoop(commands, command, blocked) ==
  IF commands = <<>> THEN CommandValidationResult(TRUE, <<>>)
  ELSE IF Head(commands) \in blocked
       THEN CommandValidationResult(FALSE, BlockedReason(Head(commands)))
       ELSE IF CheckDangerousPatterns(command)
            THEN CommandValidationResult(FALSE, DangerousReason)
            ELSE ValidateLoop(Tail(commands), command, blocked)

\* validate_command(command), with the extracted base commands iterated in the
\* given order; raises tells whether an exception is raised inside the try block.
ValidateCommand(command, order, blocked, raises) ==
  IF raises THEN CommandValidationResult(FALSE, ValidationErrorReason)
  ELSE IF command = <<>> \/ Strip(command) = <<>>
       THEN CommandValidationResult(FALSE, EmptyReason)
       ELSE ValidateLoop(order, command, blocked)

\* ----------------------------------------------------------------- state
VARIABLES
  max_completed_sessions,  \* ImprovedTerminalManager.max_completed_sessions
  sessions,                \* self.sessions: pid -> session object (its SID)
  completed_sessions,      \* self.completed_sessions: pid -> CompletedSession
  pid,                     \* session.pid / process.pid (0: no process yet)
  output_lines,            \* session.output_lines
  last_read_offset,        \* session.last_read_offset
  is_blocked_flag,         \* session.is_blocked_flag
  proc,                    \* the child: "none", "running", "zombie", "reaped"
  exit_status,             \* the status the child exited with (Optional)
  pipe,                    \* lines written by the child and not yet read
  written,                 \* history: every line the child wrote, in order
  epc,                     \* execute_command: "idle", "wait", "exited", "returned"
  deadline,                \* execute_command: 100 ms sleeps left before the timeout
  result,                  \* the CommandExecutionResult returned
  alive_at_expiry,         \* history: the child was running when the wait expired
  cpc,                     \* _handle_process_lifecycle: "none", "poll", "readline",
                           \*   "drain", "promote", "done"
  rpc,                     \* handle_read_output: "idle", "nosession", "poll"
  rpid,                    \* handle_read_output: args["pid"]
  rpolls,                  \* handle_read_output: 300 ms sleeps left before the timeout
  rlast,                   \* the envelope handle_read_output returned last
  delivered,               \* history: the slices get_new_output returned, per session
  handed,                  \* history: the texts handle_read_output returned, per session
  timer,                   \* threading.Timer of force_terminate: "none", "armed", "fired"
  ft_true,                 \* history: force_terminate returned True for the session
  ft_pid,                  \* the pid force_terminate was called with last (0: none)
  ft_last,                 \* the value force_terminate returned last (Optional)
  ft_env,                  \* the envelope handle_force_terminate returned last
  blocked_commands,        \* CommandManager.blocked_commands
  vcommand,                \* validate_command: the command given
  vresult,                 \* the CommandValidationResult returned last (Optional)
  vprev,                   \* history: the result of the call before the last (Optional)
  hpc,                     \* handle_execute_command: "idle", "admitted", "returned"
  hcommand,                \* handle_execute_command: args.get("command", "")
  hvalid,                  \* handle_execute_command: validation_result (Optional)
  henv,                    \* the envelope handle_execute_command returned
  kill_env,                \* the envelope handle_kill_process returned last
  harg,                    \* history: the tool last called with a pid that is not an
                           \*   int, and that pid (Optional)
  listed,                  \* the lines of the text handle_list_sessions returned last
                           \*   (Optional)
  raised,                  \* history: a read of the session's collector raised
  slices,                  \* history: per session, the get_new_output calls that found it
                           \*   active: caller, cursor before and after, text returned
  lpc,                     \* per thread of SpecLock: the statement it is at (0: returned)
  lock,                    \* self._lock: "free" or the thread that holds it
  unlocked,                \* history: accesses to shared state made without the lock
  lock_blocked             \* history: blocking calls made with the lock held

lockVars == << lpc, lock, unlocked, lock_blocked >>

vars == << max_completed_sessions, sessions, completed_sessions, pid, output_lines,
           last_read_offset, is_blocked_flag, proc, exit_status, pipe, written,
           epc, deadline, result, alive_at_expiry, cpc,
           rpc, rpid, rpolls, rlast, delivered, handed, timer, ft_true, ft_pid,
           ft_last, ft_env, blocked_commands, vcommand, vresult, vprev, hpc, hcommand,
           hvalid, henv, kill_env, harg, listed,
                  raised, slices, lockVars >>

readVars == << rpc, rpid, rpolls, rlast, delivered, handed >>
termVars == << timer, ft_true, ft_pid, ft_last, ft_env >>
admitVars == << blocked_commands, vcommand, vresult, vprev, hpc, hcommand, hvalid,
               henv, kill_env, harg, listed,
                  raised, slices, lockVars >>

sessionVars == << pid, output_lines, last_read_offset, is_blocked_flag >>
childVars == << proc, exit_status, pipe, written >>
executeVars == << epc, deadline, result, alive_at_expiry >>

\* CommandExecutionResult(pid, initial_output, is_blocked)
CommandExecutionResult(p, out, blocked) ==
  [pid |-> p, initial_output |-> out, is_blocked |-> blocked]

NoResult == CommandExecutionResult(0, <<>>, FALSE)

\* {"content": [{"type": "text", "text": text}], "isError": isError}
Envelope(text, isError) == [text |-> text, isError |-> isError]

NoEnvelope == Envelope(<<>>, FALSE)

\* {} (an empty dict)
EmptyMap == [q \in {} |-> 0]

\* ------------------------------------------------------- self._lock
\* The statements of the manager's methods that take or release the lock, touch
\* shared state (the two maps, a session's output_lines, last_read_offset,
\* is_blocked_flag), or block (sleep, read of the child's stream); `next` holds the
\* statements control can go to (0: the method returns).
Stmt(line, kind, next) == [line |-> line, kind |-> kind, next |-> next]

\* execute_command from the insertion of the session on
ExecuteProgram ==
  << Stmt(53, "acquire", {2}),      \* with self._lock:
     Stmt(54, "access", {3}),       \*   self.sessions[process.pid] = session
     Stmt(54, "release", {4}),
     Stmt(69, "other", {5, 14}),    \* while (time.time() - start_time) < timeout_seconds
     Stmt(71, "other", {6, 10}),    \* if process.poll() is not None
     Stmt(73, "block", {7}),        \*   time.sleep(0.1)
     Stmt(74, "acquire", {8}),      \*   with self._lock:
     Stmt(75, "access", {9}),       \*     ''.join(session.output_lines)
     Stmt(75, "release", {0}),      \*   return
     Stmt(84, "acquire", {11}),     \* with self._lock:
     Stmt(85, "access", {12}),      \*   ''.join(session.output_lines)
     Stmt(87, "release", {13}),
     Stmt(89, "block", {4}),        \* time.sleep(0.1)
     Stmt(92, "acquire", {15}),     \* with self._lock:
     Stmt(93, "access", {16}),      \*   session.is_blocked_flag = True; ''.join(...)
     Stmt(94, "release", {0}) >>    \* return

\* _handle_process_lifecycle
CollectorProgram ==
  << Stmt(114, "other", {2, 7}),    \* while session.process.poll() is None
     Stmt(116, "block", {3, 6, 7}), \*   line = stdout.readline() (7: it raised, break)
     Stmt(118, "acquire", {4}),     \*   with self._lock:
     Stmt(119, "access", {5}),      \*     session.output_lines.append(line)
     Stmt(119, "release", {1}),
     Stmt(121, "block", {1}),       \*   time.sleep(0.1)
     Stmt(127, "block", {8, 11}),   \* remaining = stdout.read()
     Stmt(129, "acquire", {9}),     \* with self._lock:
     Stmt(130, "access", {10}),     \*   session.output_lines.append(remaining)
     Stmt(130, "release", {11}),
     Stmt(137, "access", {12}),     \* final_output = ''.join(session.output_lines)
     Stmt(148, "acquire", {13}),    \* with self._lock:
     Stmt(149, "access", {14}),     \*   completed_sessions[pid] = ...; del sessions[pid]; evict
     Stmt(156, "release", {0}) >>

\* get_new_output
GetNewOutputProgram ==
  << Stmt(163, "acquire", {2}),     \* with self._lock:
     Stmt(165, "access", {3}),      \*   sessions.get, output_lines[offset:], offset = len, ...
     Stmt(177, "release", {0}) >>   \* return

\* force_terminate
ForceTerminateProgram ==
  << Stmt(181, "acquire", {2}),     \* with self._lock:
     Stmt(182, "access", {3}),      \*   session = self.sessions.get(pid)
     Stmt(184, "release", {0, 4}),  \*   (0: return False)
     Stmt(195, "other", {0}) >>     \* session.process.send_signal(...); Timer(...).start()

\* list_active_sessions
ListActiveSessionsProgram ==
  << Stmt(222, "acquire", {2}),     \* with self._lock:
     Stmt(223, "access", {3}),      \*   [ActiveSessionInfo(...) for session in sessions.values()]
     Stmt(232, "release", {0}) >>   \* return

\* The threads of SpecLock, one per method, and the method each runs.
Threads == { "execute_command", "_handle_process_lifecycle", "get_new_output",
             "force_terminate", "list_active_sessions" }

Program(t) ==
  CASE t = "execute_command" -> ExecuteProgram
    [] t = "_handle_process_lifecycle" -> CollectorProgram
    [] t = "get_new_output" -> GetNewOutputProgram
    [] t = "force_terminate" -> ForceTerminateProgram
    [] t = "list_active_sessions" -> ListActiveSessionsProgram

\* ImprovedTerminalManager() and the idle callers
InitManager ==
  /\ max_completed_sessions \in 0..MaxCap
  /\ sessions = EmptyMap
  /\ completed_sessions = EmptyMap
  /\ pid = [s \in SIDS |-> 0]
  /\ output_lines = [s \in SIDS |-> <<>>]
  /\ last_read_offset = [s \in SIDS |-> 0]
  /\ is_blocked_flag = [s \in SIDS |-> FALSE]
  /\ proc = [s \in SIDS |-> "none"]
  /\ exit_status = [s \in SIDS |-> None]
  /\ pipe = [s \in SIDS |-> <<>>]
  /\ written = [s \in SIDS |-> <<>>]
  /\ epc = [s \in SIDS |-> "idle"]
  /\ deadline = [s \in SIDS |-> 0]
  /\ result = [s \in SIDS |-> NoResult]
  /\ alive_at_expiry = [s \in SIDS |-> FALSE]
  /\ cpc = [s \in SIDS |-> "none"]
  /\ rpc = "idle"
  /\ rpid = 0
  /\ rpolls = 0
  /\ rlast = NoEnvelope
  /\ delivered = [s \in SIDS |-> <<>>]
  /\ handed = [s \in SIDS |-> <<>>]
  /\ timer = [s \in SIDS |-> "none"]
  /\ ft_true = [s \in SIDS |-> FALSE]
  /\ ft_pid = 0
  /\ ft_last = None
  /\ ft_env = NoEnvelope
  /\ hpc = [c \in SIDS |-> "idle"]
  /\ hcommand = [c \in SIDS |-> <<>>]
  /\ hvalid = [c \in SIDS |-> None]
  /\ henv = [c \in SIDS |-> NoEnvelope]
  /\ kill_env = NoEnvelope
  /\ harg = None
  /\ listed = None
  /\ raised = [s \in SIDS |-> FALSE]
  /\ slices = [s \in SIDS |-> <<>>]
  /\ lpc = [t \in Threads |-> 1]
  /\ lock = "free"
  /\ unlocked = {}
  /\ lock_blocked = {}

\* CommandManager(): the default denylist; no validate_command call made yet
Init ==
  /\ InitManager
  /\ blocked_commands = DefaultBlockedCommands
  /\ vcommand = <<>>
  /\ vresult = None
  /\ vprev = None

\* ------------------------------------------------------------- the child
\* A pid is free for the OS to hand out once its child has been reaped.
FreePids == PIDS \ { pid[s] : s \in { x \in SIDS : proc[x] \in {"running", "zombie"} } }

RECURSIVE SumLen(_)
SumLen(S) == IF S = {} THEN 0
             ELSE LET x == CHOOSE y \in S : TRUE
                  IN  Len(written[x]) + SumLen(S \ {x})

TotalWritten == SumLen(SIDS)

\* The child writes one line to its merged stdout/stderr.
ChildWrite(s, line, budget) ==
  /\ proc[s] = "running"
  /\ TotalWritten < budget
  /\ pipe' = [pipe EXCEPT ![s] = Append(@, line)]
  /\ written' = [written EXCEPT ![s] = Append(@, line)]
  /\ UNCHANGED << admitVars, max_completed_sessions, sessions, completed_sessions, sessionVars,
                  proc, exit_status, executeVars, cpc, readVars, termVars >>

\* The child exits by itself (or on a signal it handles) with some status.
ChildExit(s, code) ==
  /\ proc[s] = "running"
  /\ proc' = [proc EXCEPT ![s] = "zombie"]
  /\ exit_status' = [exit_status EXCEPT ![s] = Some(code)]
  /\ UNCHANGED << admitVars, max_completed_sessions, sessions, completed_sessions, sessionVars,
                  pipe, written, executeVars, cpc, readVars, termVars >>

\* Popen.poll(): None while the child runs; otherwise the child is reaped (once)
\* and its status becomes process.returncode.
PollValue(s) == IF proc[s] = "running" THEN None ELSE exit_status[s]
PollProc(s) == IF proc[s] = "zombie" THEN [proc EXCEPT ![s] = "reaped"] ELSE proc

\* process.returncode
returncode(s) == IF proc[s] = "reaped" THEN exit_status[s] ELSE None

\* ------------------------------------------------------------ the store
\* d[k] = v
MapPut(d, k, v) == [q \in DOMAIN d \cup {k} |-> IF q = k THEN v ELSE d[q]]

\* del d[k]
MapDel(d, k) == [q \in DOMAIN d \ {k} |-> d[q]]

\* min(d.keys())
MaxKey(d) == CHOOSE k \in DOMAIN d : \A q \in DOMAIN d : k >= q
MinKey(d) == CHOOSE k \in DOMAIN d : \A q \in DOMAIN d : k <= q

\* CompletedSession(pid, command, final_output, exit_code, ...)
CompletedSession(s) ==
  [pid |-> pid[s], command |-> s, final_output |-> Join(output_lines[s]),
   exit_code |-> returncode(s)]

\* "Keep only last N completed sessions"
EvictNone(store, cap) == store
Evict(store, cap) ==
  IF Cardinality(DOMAIN store) > cap THEN MapDel(store, MinKey(store)) ELSE store

\* ------------------------------------------------------ execute_command
\* Popen(...) raises (for instance an invalid cwd): the except branch.
SpawnErrorText == << "Error executing command: <exception>" >>
\* Popen(...) returns an object without a pid.
NoPidText == << "Error: Failed to get process ID. The command could not be executed." >>

SpawnFailureBlocked(text) == CommandExecutionResult(0 - 1, text, TRUE)
SpawnFailure(text) == CommandExecutionResult(0 - 1, text, FALSE)

\* Calls are numbered in the order they are made.
NextCall(c) == epc[c] = "idle" /\ \A d \in SIDS : d < c => epc[d] # "idle"

ExecuteSpawnRaises(c) ==
  /\ NextCall(c)
  /\ epc' = [epc EXCEPT ![c] = "returned"]
  /\ result' = [result EXCEPT ![c] = SpawnFailure(SpawnErrorText)]
  /\ UNCHANGED << admitVars, max_completed_sessions, sessions, completed_sessions, sessionVars,
                  childVars, deadline, alive_at_expiry, cpc, readVars, termVars >>

ExecuteNoPid(c) ==
  /\ NextCall(c)
  /\ epc' = [epc EXCEPT ![c] = "returned"]
  /\ result' = [result EXCEPT ![c] = SpawnFailure(NoPidText)]
  /\ UNCHANGED << admitVars, max_completed_sessions, sessions, completed_sessions, sessionVars,
                  childVars, deadline, alive_at_expiry, cpc, readVars, termVars >>

\* Popen succeeds with pid p; the session is created and stored under the lock and
\* the collector thread is started.  t is timeout_ms in 100 ms sleeps.
ExecuteSpawn(c, p, t) ==
  /\ NextCall(c)
  /\ p \in FreePids
  /\ pid' = [pid EXCEPT ![c] = p]
  /\ proc' = [proc EXCEPT ![c] = "running"]
  /\ sessions' = MapPut(sessions, p, c)
  /\ cpc' = [cpc EXCEPT ![c] = "poll"]
  /\ epc' = [epc EXCEPT ![c] = "wait"]
  /\ deadline' = [deadline EXCEPT ![c] = t]
  /\ UNCHANGED << admitVars, max_completed_sessions, completed_sessions, output_lines,
                  last_read_offset, is_blocked_flag, exit_status, pipe, written,
                  result, alive_at_expiry, readVars, termVars >>

\* One turn of the bounded wait with time left: poll() finds the child exited.
ExecutePollExited(c) ==
  /\ epc[c] = "wait"
  /\ deadline[c] > 0
  /\ PollValue(c) # None
  /\ proc' = PollProc(c)
  /\ epc' = [epc EXCEPT ![c] = "exited"]
  /\ UNCHANGED << admitVars, max_completed_sessions, sessions, completed_sessions, sessionVars,
                  exit_status, pipe, written, deadline, result, alive_at_expiry, cpc, readVars, termVars >>

\* One turn of the bounded wait with time left: the child still runs; the partial
\* output is copied to a local and the thread sleeps; d sleeps' worth of time pass.
ExecutePollRunning(c, d) ==
  /\ epc[c] = "wait"
  /\ deadline[c] > 0
  /\ PollValue(c) = None
  /\ d \in 1..deadline[c]
  /\ deadline' = [deadline EXCEPT ![c] = @ - d]
  /\ UNCHANGED << admitVars, max_completed_sessions, sessions, completed_sessions, sessionVars,
                  childVars, epc, result, alive_at_expiry, cpc, readVars, termVars >>

\* After time.sleep(0.1): snapshot under the lock, return is_blocked=False.
ExecuteReturnCompletedSetsFlag(c) ==
  /\ epc[c] = "exited"
  /\ is_blocked_flag' = [is_blocked_flag EXCEPT ![c] = TRUE]
  /\ result' = [result EXCEPT ![c] =
                  CommandExecutionResult(pid[c], Join(output_lines[c]), FALSE)]
  /\ epc' = [epc EXCEPT ![c] = "returned"]
  /\ deadline' = [deadline EXCEPT ![c] = 0]
  /\ UNCHANGED << admitVars, max_completed_sessions, sessions, completed_sessions, pid,
                  output_lines, last_read_offset, childVars, alive_at_expiry, cpc,
                  readVars, termVars >>
ExecuteReturnCompleted(c) ==
  /\ epc[c] = "exited"
  /\ result' = [result EXCEPT ![c] =
                  CommandExecutionResult(pid[c], Join(output_lines[c]), FALSE)]
  /\ epc' = [epc EXCEPT ![c] = "returned"]
  /\ deadline' = [deadline EXCEPT ![c] = 0]
  /\ UNCHANGED << admitVars, max_completed_sessions, sessions, completed_sessions, sessionVars,
                  childVars, alive_at_expiry, cpc, readVars, termVars >>

\* The loop condition fails: set the flag and snapshot under the lock, return
\* is_blocked=True.
ExecuteTimeoutAdvancesCursor(c) ==
  /\ epc[c] = "wait"
  /\ deadline[c] = 0
  /\ is_blocked_flag' = [is_blocked_flag EXCEPT ![c] = TRUE]
  /\ last_read_offset' = [last_read_offset EXCEPT ![c] = Len(output_lines[c])]
  /\ result' = [result EXCEPT ![c] =
                  CommandExecutionResult(pid[c], Join(output_lines[c]), TRUE)]
  /\ alive_at_expiry' = [alive_at_expiry EXCEPT ![c] = (proc[c] = "running")]
  /\ epc' = [epc EXCEPT ![c] = "returned"]
  /\ UNCHANGED << admitVars, max_completed_sessions, sessions, completed_sessions, pid,
                  output_lines, childVars, deadline, cpc, readVars, termVars >>
ExecuteTimeout(c) ==
  /\ epc[c] = "wait"
  /\ deadline[c] = 0
  /\ is_blocked_flag' = [is_blocked_flag EXCEPT ![c] = TRUE]
  /\ result' = [result EXCEPT ![c] =
                  CommandExecutionResult(pid[c], Join(output_lines[c]), TRUE)]
  /\ alive_at_expiry' = [alive_at_expiry EXCEPT ![c] = (proc[c] = "running")]
  /\ epc' = [epc EXCEPT ![c] = "returned"]
  /\ UNCHANGED << admitVars, max_completed_sessions, sessions, completed_sessions, pid,
                  output_lines, last_read_offset, childVars, deadline, cpc, readVars, termVars >>

\* ------------------------------------------- _handle_process_lifecycle
\* while session.process.poll() is None:
CollectorPoll(s) ==
  /\ cpc[s] = "poll"
  /\ proc' = PollProc(s)
  /\ cpc' = [cpc EXCEPT ![s] = IF PollValue(s) = None THEN "readline" ELSE "drain"]
  /\ UNCHANGED << admitVars, max_completed_sessions, sessions, completed_sessions, sessionVars,
                  exit_status, pipe, written, executeVars, readVars, termVars >>

\* line = stdout.readline(): blocks until a line is there or the stream ends.
\* A line is appended under the lock; at end of stream ('') the thread sleeps.
CollectorPrepend(s, line) == [output_lines EXCEPT ![s] = << line >> \o @]
CollectorAppend(s, line) == [output_lines EXCEPT ![s] = Append(@, line)]

CollectorReadline(s) ==
  /\ cpc[s] = "readline"
  /\ \/ /\ pipe[s] # <<>>
        /\ output_lines' = CollectorAppend(s, Head(pipe[s]))
        /\ pipe' = [pipe EXCEPT ![s] = Tail(@)]
     \/ /\ pipe[s] = <<>>
        /\ proc[s] # "running"
        /\ UNCHANGED << output_lines, pipe >>
  /\ cpc' = [cpc EXCEPT ![s] = "poll"]
  /\ UNCHANGED << admitVars, max_completed_sessions, sessions, completed_sessions, pid,
                  last_read_offset, is_blocked_flag, proc, exit_status, written,
                  executeVars, readVars, termVars >>

\* line = stdout.readline() raises (the child wrote bytes the text-mode stream
\* cannot decode): the bytes read are lost, `except Exception: break` leaves the
\* loop without poll() having seen the child exit.
CollectorReadlineRaises(s) ==
  /\ cpc[s] = "readline"
  /\ pipe[s] # <<>>
  /\ pipe' = [pipe EXCEPT ![s] = Tail(@)]
  /\ raised' = [raised EXCEPT ![s] = TRUE]
  /\ cpc' = [cpc EXCEPT ![s] = "drain"]
  /\ UNCHANGED << max_completed_sessions, sessions, completed_sessions, sessionVars,
                  proc, exit_status, written, executeVars, readVars, termVars,
                  blocked_commands, vcommand, vresult, vprev, hpc, hcommand, hvalid,
                  henv, kill_env, harg, listed, slices, lockVars >>

\* remaining = stdout.read(): everything up to the end of the stream, which the
\* child's exit closes, appended as one unit when it is not empty.
DrainSkip(s) == output_lines
Drain(s) ==
  IF pipe[s] # <<>> THEN [output_lines EXCEPT ![s] = Append(@, Join(pipe[s]))]
  ELSE output_lines

CollectorDrain(s) ==
  /\ cpc[s] = "drain"
  /\ proc[s] # "running"
  /\ output_lines' = Drain(s)
  /\ pipe' = [pipe EXCEPT ![s] = <<>>]
  /\ cpc' = [cpc EXCEPT ![s] = "promote"]
  /\ UNCHANGED << admitVars, max_completed_sessions, sessions, completed_sessions, pid,
                  last_read_offset, is_blocked_flag, proc, exit_status, written,
                  executeVars, readVars, termVars >>

\* The promotion, under the lock: store the CompletedSession under session.pid,
\* delete that key from the active map, evict.
CollectorPromoteKeepsActive(s) ==
  /\ cpc[s] = "promote"
  /\ completed_sessions' =
       Evict(MapPut(completed_sessions, pid[s], CompletedSession(s)),
             max_completed_sessions)
  /\ cpc' = [cpc EXCEPT ![s] = "done"]
  /\ UNCHANGED << admitVars, max_completed_sessions, sessions, sessionVars, childVars,
                  executeVars, readVars, termVars >>
CollectorPromote(s) ==
  /\ cpc[s] = "promote"
  /\ completed_sessions' =
       Evict(MapPut(completed_sessions, pid[s], CompletedSession(s)),
             max_completed_sessions)
  /\ sessions' = IF pid[s] \in DOMAIN sessions THEN MapDel(sessions, pid[s])
                 ELSE sessions
  /\ cpc' = [cpc EXCEPT ![s] = "done"]
  /\ UNCHANGED << admitVars, max_completed_sessions, sessionVars, childVars, executeVars, readVars, termVars >>

\* ------------------------------------------------------ get_new_output
\* f"{completed_session.exit_code}"
CodeStr(code) ==
  IF code = None THEN "None"
  ELSE CASE code[1] = 0 -> "0"
         [] code[1] = 1 -> "1"
         [] OTHER -> "-9"

\* f"{pid}"
PidStr(p) ==
  CASE p = 1 -> "1"
    [] p = 2 -> "2"
    [] p = 3 -> "3"
    [] OTHER -> "-1"

\* The completed summary; the runtime is not modelled.
Summary(cs) ==
  << "Process completed with exit code ", CodeStr(cs.exit_code),
     "\nRuntime: ", "<runtime>", "s\nFinal output:\n" >> \o cs.final_output

\* new_lines = session.output_lines[session.last_read_offset:]
NewLinesAll(s) == output_lines[s]
NewLines(s) == SubSeq(output_lines[s], last_read_offset[s] + 1, Len(output_lines[s]))

\* The value get_new_output(p) returns (Optional[str]).
GetNewOutputValue(p) ==
  IF p \in DOMAIN sessions THEN Some(Join(NewLines(sessions[p])))
  ELSE IF p \in DOMAIN completed_sessions THEN Some(Summary(completed_sessions[p]))
  ELSE None

\* session.last_read_offset = len(session.output_lines)
GetNewOutputOffsetsKeep(p) == last_read_offset
GetNewOutputOffsetsRelative(p) ==
  IF p \in DOMAIN sessions
  THEN [last_read_offset EXCEPT ![sessions[p]] = Len(NewLines(sessions[p]))]
  ELSE last_read_offset
GetNewOutputOffsets(p) ==
  IF p \in DOMAIN sessions
  THEN [last_read_offset EXCEPT ![sessions[p]] = Len(output_lines[sessions[p]])]
  ELSE last_read_offset

\* History of the slices handed out for the session found in the active map.
GetNewOutputDelivered(p) ==
  IF p \in DOMAIN sessions
  THEN [delivered EXCEPT ![sessions[p]] = @ \o Join(NewLines(sessions[p]))]
  ELSE delivered

\* History of the get_new_output calls that found the session active: the caller,
\* the cursor before and after the call, the text returned.
GetNewOutputSlices(r, p) ==
  IF p \in DOMAIN sessions
  THEN LET s == sessions[p]
       IN  [slices EXCEPT ![s] =
              Append(@, [reader |-> r, lo |-> last_read_offset[s],
                         hi |-> Len(output_lines[s]), text |-> Join(NewLines(s))])]
  ELSE slices

\* get_new_output(p) called by caller r: one block under the lock.
GetNewOutput(r, p) ==
  /\ \A s \in SIDS : Len(slices[s]) < MaxReads
  /\ last_read_offset' = GetNewOutputOffsets(p)
  /\ delivered' = GetNewOutputDelivered(p)
  /\ slices' = GetNewOutputSlices(r, p)
  /\ UNCHANGED << max_completed_sessions, sessions, completed_sessions, pid, output_lines,
                  is_blocked_flag, childVars, executeVars, cpc, rpc, rpid, rpolls, rlast,
                  handed, termVars, blocked_commands, vcommand, vresult, vprev, hpc,
                  hcommand, hvalid, henv, kill_env, harg, listed, raised,
                  lockVars >>

\* --------------------------------------------------- handle_read_output
NoSessionText == << "No session found for PID <pid>" >>
NoNewOutputText == << "No new output available (timeout reached)" >>

\* The envelope returned when neither map yields anything for the pid.
NoSessionEnvelopeNotError == Envelope(NoSessionText, FALSE)
NoSessionEnvelope == Envelope(NoSessionText, TRUE)

\* Python truthiness of an Optional[str]
Truthy(v) == v # None /\ v[1] # <<>>

\* `output and output.strip()`
HasVisibleText(v) == Truthy(v) /\ Strip(v[1]) # <<>>

\* History of the texts the handler returned for the session found active.
Handed(p, v) ==
  IF p \in DOMAIN sessions THEN [handed EXCEPT ![sessions[p]] = @ \o v[1]] ELSE handed

\* session = terminal_manager.get_session(pid); t is timeout_ms in 300 ms sleeps.
HandleReadStart(p, t) ==
  /\ rpc = "idle"
  /\ rpid' = p
  /\ IF p \in DOMAIN sessions
     THEN rpc' = "poll" /\ rpolls' = t
     ELSE rpc' = "nosession" /\ rpolls' = 0
  /\ UNCHANGED << admitVars, max_completed_sessions, sessions, completed_sessions, sessionVars,
                  childVars, executeVars, cpc, rlast, delivered, handed, termVars >>

\* No active session was found: completed_output = get_new_output(pid).
HandleReadNoSession ==
  /\ rpc = "nosession"
  /\ LET v == GetNewOutputValue(rpid)
     IN  /\ rlast' = IF Truthy(v) THEN Envelope(v[1], FALSE)
                     ELSE NoSessionEnvelope
         /\ handed' = IF Truthy(v) THEN Handed(rpid, v) ELSE handed
  /\ last_read_offset' = GetNewOutputOffsets(rpid)
  /\ delivered' = GetNewOutputDelivered(rpid)
  /\ rpc' = "idle"
  /\ UNCHANGED << admitVars, max_completed_sessions, sessions, completed_sessions, pid,
                  output_lines, is_blocked_flag, childVars, executeVars, cpc,
                  rpid, rpolls, termVars >>

\* One turn of the polling loop with time left: return what has visible text,
\* else sleep 300 ms (d sleeps' worth of time pass).
HandleReadPoll(d) ==
  /\ rpc = "poll"
  /\ rpolls > 0
  /\ d \in 1..rpolls
  /\ LET v == GetNewOutputValue(rpid)
     IN  IF HasVisibleText(v)
         THEN /\ rlast' = Envelope(v[1], FALSE)
              /\ handed' = Handed(rpid, v)
              /\ rpc' = "idle"
              /\ rpolls' = 0
         ELSE /\ rpolls' = rpolls - d
              /\ UNCHANGED << rlast, handed, rpc >>
  /\ last_read_offset' = GetNewOutputOffsets(rpid)
  /\ delivered' = GetNewOutputDelivered(rpid)
  /\ UNCHANGED << admitVars, max_completed_sessions, sessions, completed_sessions, pid,
                  output_lines, is_blocked_flag, childVars, executeVars, cpc,
                  rpid, termVars >>

\* After the loop: final_output = get_new_output(pid).
HandleReadFinal ==
  /\ rpc = "poll"
  /\ rpolls = 0
  /\ LET v == GetNewOutputValue(rpid)
     IN  IF HasVisibleText(v)
         THEN /\ rlast' = Envelope(v[1], FALSE)
              /\ handed' = Handed(rpid, v)
         ELSE /\ rlast' = Envelope(NoNewOutputText, FALSE)
              /\ UNCHANGED handed
  /\ last_read_offset' = GetNewOutputOffsets(rpid)
  /\ delivered' = GetNewOutputDelivered(rpid)
  /\ rpc' = "idle"
  /\ UNCHANGED << admitVars, max_completed_sessions, sessions, completed_sessions, pid,
                  output_lines, is_blocked_flag, childVars, executeVars, cpc,
                  rpid, rpolls, termVars >>

\* ------------------------------------------------------ force_terminate
\* handle_force_terminate: the envelope for the value force_terminate returned
ForceTerminateEnvelopeError(success) ==
  IF success
  THEN Envelope(<< "Successfully initiated termination of session <pid>" >>, FALSE)
  ELSE Envelope(<< "No active session found for PID <pid>" >>, TRUE)
ForceTerminateEnvelope(success) ==
  IF success
  THEN Envelope(<< "Successfully initiated termination of session <pid>" >>, FALSE)
  ELSE Envelope(<< "No active session found for PID <pid>" >>, FALSE)

\* pid not in the active map: return False.
ForceTerminateMissing(p) ==
  /\ p \notin DOMAIN sessions
  /\ ft_pid' = p
  /\ ft_last' = Some(FALSE)
  /\ ft_env' = ForceTerminateEnvelope(FALSE)
  /\ UNCHANGED << admitVars, max_completed_sessions, sessions, completed_sessions, sessionVars,
                  childVars, executeVars, cpc, readVars, timer, ft_true >>

\* The session is active: send_signal(SIGINT) (Popen polls first and signals only a
\* child that has not exited; a running child may then exit at any time, which is
\* ChildExit), start the one-second Timer, return True.  Lookup and signalling are
\* one step: the signal goes to the Popen object found, whatever the map holds later.
ForceTerminateRemoves(p) ==
  /\ p \in DOMAIN sessions
  /\ proc' = PollProc(sessions[p])
  /\ timer' = [timer EXCEPT ![sessions[p]] = "armed"]
  /\ ft_true' = [ft_true EXCEPT ![sessions[p]] = TRUE]
  /\ ft_pid' = p
  /\ ft_last' = Some(TRUE)
  /\ ft_env' = ForceTerminateEnvelope(TRUE)
  /\ sessions' = MapDel(sessions, p)
  /\ UNCHANGED << admitVars, max_completed_sessions, completed_sessions, sessionVars,
                  exit_status, pipe, written, executeVars, cpc, readVars >>
ForceTerminate(p) ==
  /\ p \in DOMAIN sessions
  /\ proc' = PollProc(sessions[p])
  /\ timer' = [timer EXCEPT ![sessions[p]] = "armed"]
  /\ ft_true' = [ft_true EXCEPT ![sessions[p]] = TRUE]
  /\ ft_pid' = p
  /\ ft_last' = Some(TRUE)
  /\ ft_env' = ForceTerminateEnvelope(TRUE)
  /\ UNCHANGED << admitVars, max_completed_sessions, sessions, completed_sessions, sessionVars,
                  exit_status, pipe, written, executeVars, cpc, readVars >>

\* _force_kill_if_needed: if poll() is None: kill().  SIGKILL ends the child.
ForceKillIfNeeded(s) ==
  /\ timer[s] = "armed"
  /\ timer' = [timer EXCEPT ![s] = "fired"]
  /\ IF PollValue(s) = None
     THEN /\ proc' = [proc EXCEPT ![s] = "zombie"]
          /\ exit_status' = [exit_status EXCEPT ![s] = Some(SigKillCode)]
     ELSE /\ proc' = PollProc(s)
          /\ UNCHANGED exit_status
  /\ UNCHANGED << admitVars, max_completed_sessions, sessions, completed_sessions, sessionVars,
                  pipe, written, executeVars, cpc, readVars, ft_true, ft_pid, ft_last,
                  ft_env >>

\* ------------------------------------------------- list_active_sessions
\* str(bool)
BoolStr(b) == IF b THEN "True" ELSE "False"

\* ActiveSessionInfo(pid, command, is_blocked, ...) of a session object; the times
\* are not modelled.
ActiveSessionInfo(s) ==
  [pid |-> pid[s], command |-> s, is_blocked |-> is_blocked_flag[s]]

\* list_active_sessions(): one entry per value of the active map (the order of the
\* list is the dict's and is not modelled).
ListActiveSessions == { ActiveSessionInfo(sessions[p]) : p \in DOMAIN sessions }

\* handle_list_sessions: the line written for an entry
SessionLine(info) ==
  << "PID: ", PidStr(info.pid), ", Blocked: ", BoolStr(info.is_blocked),
     ", Runtime: ", "<runtime>", "s" >>

\* handle_list_sessions: the lines of the text, or "No active sessions"
HandleListSessionsLines ==
  IF ListActiveSessions = {} THEN { << "No active sessions" >> }
  ELSE { SessionLine(info) : info \in ListActiveSessions }

\* handle_list_sessions(): reads the active map and writes nothing.
HandleListSessions ==
  /\ listed' = Some(HandleListSessionsLines)
  /\ UNCHANGED << max_completed_sessions, sessions, completed_sessions, sessionVars,
                  childVars, executeVars, cpc, readVars, termVars, blocked_commands,
                  vcommand, vresult, vprev, hpc, hcommand, hvalid, henv, kill_env,
                  harg, raised, slices, lockVars >>

\* ------------------------------------------------- the lock discipline
\* The statement thread t is at.
AtStmt(t, kind) == lpc[t] # 0 /\ Program(t)[lpc[t]].kind = kind

\* Control moves to one of the statements that can follow.
Goto(t) == \E n \in Program(t)[lpc[t]].next : lpc' = [lpc EXCEPT ![t] = n]

LockFrame ==
  UNCHANGED << max_completed_sessions, sessions, completed_sessions, sessionVars,
               childVars, executeVars, cpc, readVars, termVars, blocked_commands,
               vcommand, vresult, vprev, hpc, hcommand, hvalid, henv, kill_env, harg,
               listed, raised, slices >>

\* `with self._lock:` entered: the thread waits until the lock is free.
LockAcquire(t) ==
  /\ AtStmt(t, "acquire")
  /\ lock = "free"
  /\ lock' = t
  /\ Goto(t)
  /\ UNCHANGED << unlocked, lock_blocked >>
  /\ LockFrame

\* The `with` block is left.
LockRelease(t) ==
  /\ AtStmt(t, "release")
  /\ lock = t
  /\ lock' = "free"
  /\ Goto(t)
  /\ UNCHANGED << unlocked, lock_blocked >>
  /\ LockFrame

\* A statement that reads or writes shared state.
SharedAccess(t) ==
  /\ AtStmt(t, "access")
  /\ unlocked' = IF lock = t THEN unlocked
                 ELSE unlocked \cup { [thread |-> t, line |-> Program(t)[lpc[t]].line] }
  /\ Goto(t)
  /\ UNCHANGED << lock, lock_blocked >>
  /\ LockFrame

\* A sleep or a read of the child's stream.
BlockingCall(t) ==
  /\ AtStmt(t, "block")
  /\ lock_blocked' = IF lock = t
                     THEN lock_blocked \cup { [thread |-> t, line |-> Program(t)[lpc[t]].line] }
                     ELSE lock_blocked
  /\ Goto(t)
  /\ UNCHANGED << lock, unlocked >>
  /\ LockFrame

\* Any other statement (loop test, poll(), send_signal).
LocalStep(t) ==
  /\ AtStmt(t, "other")
  /\ Goto(t)
  /\ UNCHANGED << lock, unlocked, lock_blocked >>
  /\ LockFrame

\* --------------------------------------------------------- specifications
\* The steps of the execute_command calls in S and of their collector threads.
Calls(S) ==
  \/ \E c \in S : ExecuteSpawnRaises(c)
  \/ \E c \in S : ExecuteNoPid(c)
  \/ \E c \in S, p \in PIDS, t \in 0..MaxTimeout : ExecuteSpawn(c, p, t)
  \/ \E c \in S : ExecutePollExited(c)
  \/ \E c \in S, d \in 1..MaxTimeout : ExecutePollRunning(c, d)
  \/ \E c \in S : ExecuteReturnCompleted(c)
  \/ \E c \in S : ExecuteTimeout(c)
  \/ \E s \in S : CollectorPoll(s)
  \/ \E s \in S : CollectorReadline(s)
  \/ \E s \in S : CollectorDrain(s)
  \/ \E s \in S : CollectorPromote(s)

\* Spec: concurrent execute_command calls with their collectors and children.
Next ==
  \/ Calls(SIDS)
  \/ \E s \in SIDS, line \in Lines : ChildWrite(s, line, MaxLines)
  \/ \E s \in SIDS : ChildExit(s, 0)

Spec == Init /\ [][Next]_vars

\* The collector is a thread of its own and execute_command runs in its caller's
\* thread: each keeps being scheduled.  Nothing is assumed of the children.
ExecuteStep(c) ==
  \/ ExecutePollExited(c)
  \/ \E d \in 1..MaxTimeout : ExecutePollRunning(c, d)
  \/ ExecuteReturnCompleted(c)
  \/ ExecuteTimeout(c)

CollectorStep(s) ==
  \/ CollectorPoll(s)
  \/ CollectorReadline(s)
  \/ CollectorDrain(s)
  \/ CollectorPromote(s)

FairSpec ==
  /\ Spec
  /\ \A s \in SIDS : WF_vars(CollectorStep(s))
  /\ \A c \in SIDS : WF_vars(ExecuteStep(c))

\* SpecRead: handle_read_output, which makes every get_new_output call, against
\* execute_command calls, collectors and children.  A call with timeout 0 is one
\* get_new_output call.
ReadSIDS == 1..MaxReadSessions

NextRead ==
  \/ Calls(ReadSIDS)
  \/ \E s \in ReadSIDS, line \in Lines : ChildWrite(s, line, MaxReadLines)
  \/ \E s \in ReadSIDS, code \in ExitCodes : ChildExit(s, code)
  \/ \E p \in PIDS, t \in 0..MaxPolls : HandleReadStart(p, t)
  \/ HandleReadNoSession
  \/ \E d \in 1..MaxPolls : HandleReadPoll(d)
  \/ HandleReadFinal

SpecRead == Init /\ [][NextRead]_vars

\* SpecTerm: force_terminate and its timers against concurrent execute_command
\* calls and collectors, with children that write nothing.
NextTerm ==
  \/ Calls(SIDS)
  \/ \E s \in SIDS : ChildExit(s, 0)
  \/ \E p \in PIDS : ForceTerminateMissing(p)
  \/ \E p \in PIDS : ForceTerminate(p)
  \/ \E s \in SIDS : ForceKillIfNeeded(s)

SpecTerm == Init /\ [][NextTerm]_vars

\* SpecAppend: every operation that holds a session's output (the execute_command
\* call and its collector, get_new_output through read_output with timeout 0,
\* force_terminate with its timer) with a child that writes up to MaxReadLines lines.
NextAppend ==
  \/ Calls(ReadSIDS)
  \/ \E s \in ReadSIDS, line \in Lines : ChildWrite(s, line, MaxReadLines)
  \/ \E s \in ReadSIDS : ChildExit(s, 0)
  \/ \E p \in PIDS : HandleReadStart(p, 0)
  \/ HandleReadNoSession
  \/ HandleReadFinal
  \/ \E p \in PIDS : ForceTerminateMissing(p)
  \/ \E p \in PIDS : ForceTerminate(p)
  \/ \E s \in ReadSIDS : ForceKillIfNeeded(s)

SpecAppend == Init /\ [][NextAppend]_vars

\* SpecTools: every tool of the terminal (read_output with timeout 0, force_terminate
\* with its timer, list_sessions) against one execute_command call, its collector
\* and a child that writes nothing.
NextTools ==
  \/ Calls(ReadSIDS)
  \/ \E s \in ReadSIDS, code \in ExitCodes : ChildExit(s, code)
  \/ \E p \in PIDS : HandleReadStart(p, 0)
  \/ HandleReadNoSession
  \/ HandleReadFinal
  \/ \E p \in PIDS : ForceTerminateMissing(p)
  \/ \E p \in PIDS : ForceTerminate(p)
  \/ \E s \in ReadSIDS : ForceKillIfNeeded(s)
  \/ HandleListSessions

SpecTools == Init /\ [][NextTools]_vars

\* SpecRaise: one execute_command call and its collector, whose readline may raise,
\* with a child that writes up to MaxReadLines lines and exits with any code.
NextRaise ==
  \/ Calls(ReadSIDS)
  \/ \E s \in ReadSIDS, line \in Lines : ChildWrite(s, line, MaxReadLines)
  \/ \E s \in ReadSIDS, code \in ExitCodes : ChildExit(s, code)
  \/ \E s \in ReadSIDS : CollectorReadlineRaises(s)

SpecRaise == Init /\ [][NextRaise]_vars

\* SpecReaders: MaxReaders callers of get_new_output against one execute_command
\* call, its collector and a child that writes up to MaxReadLines lines.
Readers == 1..MaxReaders

NextReaders ==
  \/ Calls(ReadSIDS)
  \/ \E s \in ReadSIDS, line \in Lines : ChildWrite(s, line, MaxReadLines)
  \/ \E s \in ReadSIDS : ChildExit(s, 0)
  \/ \E r \in Readers, p \in PIDS : GetNewOutput(r, p)

SpecReaders == Init /\ [][NextReaders]_vars

\* SpecExit: one execute_command call, its collector, whose readline may raise, and
\* force_terminate with its timer, with a child that writes up to MaxLines lines
\* and exits with any code or is killed.
NextExit ==
  \/ Calls(ReadSIDS)
  \/ \E s \in ReadSIDS, line \in Lines : ChildWrite(s, line, MaxLines)
  \/ \E s \in ReadSIDS, code \in ExitCodes : ChildExit(s, code)
  \/ \E s \in ReadSIDS : CollectorReadlineRaises(s)
  \/ \E p \in PIDS : ForceTerminateMissing(p)
  \/ \E p \in PIDS : ForceTerminate(p)
  \/ \E s \in ReadSIDS : ForceKillIfNeeded(s)

SpecExit == Init /\ [][NextExit]_vars

\* FairExit: SpecExit with the collector thread scheduled again and again.  Nothing
\* is assumed of the child, of the callers or of the timer.
FairExit ==
  /\ SpecExit
  /\ \A s \in SIDS : WF_vars(CollectorStep(s))

\* SpecLock: one thread in each method of the manager that touches shared state,
\* followed statement by statement through its lock blocks.
NextLock ==
  \/ \E t \in Threads : LockAcquire(t)
  \/ \E t \in Threads : LockRelease(t)
  \/ \E t \in Threads : SharedAccess(t)
  \/ \E t \in Threads : BlockingCall(t)
  \/ \E t \in Threads : LocalStep(t)

SpecLock == Init /\ [][NextLock]_vars

\* ----------------------------------------------- handle_execute_command
\* The commands given to handle_execute_command: whitespace only, harmless,
\* denylisted, matching a dangerous pattern.
AdmitCommands == { << " " >>,
                   << " ", "l", "s" >>,
                   << "S", "u" >>,
                   << "l", "s", " ", ">", "/", "d", "e", "v", "/" >> }

EmptyCommandEnvelope == Envelope(<< "Error: Command cannot be empty" >>, TRUE)
RejectionEnvelope(validation) == Envelope(<< "Error: " >> \o validation.reason, TRUE)

\* The validation lets the command through: validate_command returned is_valid, or
\* it raised (validation is None) and the handler's except clause passes.
AdmitsAlways(validation) == TRUE
Admits(validation) == validation = None \/ validation[1].is_valid

\* The envelope built from the CommandExecutionResult.
ResultEnvelopeCompletedIsError(res) ==
  IF res.pid = 0 - 1 \/ ~res.is_blocked THEN Envelope(res.initial_output, TRUE)
  ELSE Envelope(<< "Command started with PID ", PidStr(res.pid) >>
                \o << "\nCommand is still running. Use read_output to get more output." >>,
                FALSE)
ResultEnvelope(res) ==
  IF res.pid = 0 - 1 THEN Envelope(res.initial_output, TRUE)
  ELSE IF ~res.is_blocked
       THEN Envelope(IF Strip(res.initial_output) # <<>>
                     THEN Strip(res.initial_output)
                     ELSE << "(no output)" >>, FALSE)
       ELSE Envelope(<< "Command started with PID ", PidStr(res.pid) >>
                     \o (IF Strip(res.initial_output) # <<>>
                         THEN << "\nInitial output:\n" >> \o res.initial_output
                         ELSE <<>>)
                     \o << "\nCommand is still running. Use read_output to get more output." >>,
                     FALSE)

\* command = args.get("command", "").strip(); if not command: return the error.
HandleExecuteEmpty(c, raw) ==
  /\ hpc[c] = "idle"
  /\ NextCall(c)
  /\ Strip(raw) = <<>>
  /\ hcommand' = [hcommand EXCEPT ![c] = raw]
  /\ henv' = [henv EXCEPT ![c] = EmptyCommandEnvelope]
  /\ hpc' = [hpc EXCEPT ![c] = "returned"]
  /\ UNCHANGED << max_completed_sessions, sessions, completed_sessions, sessionVars,
                  childVars, executeVars, cpc, readVars, termVars, blocked_commands,
                  vcommand, vresult, vprev, hvalid, kill_env, harg,
                  listed,
                  raised, slices, lockVars >>

\* validation_result = command_manager.validate_command(command): return the error
\* envelope, or go on to terminal_manager.execute_command.
HandleExecuteValidate(c, raw, order, raises) ==
  /\ hpc[c] = "idle"
  /\ NextCall(c)
  /\ Strip(raw) # <<>>
  /\ order \in Orders(ExtractCommands(Strip(raw)))
  /\ LET validation == Some(ValidateCommand(Strip(raw), order, blocked_commands, raises))
     IN  /\ hvalid' = [hvalid EXCEPT ![c] = validation]
         /\ IF Admits(validation)
            THEN /\ hpc' = [hpc EXCEPT ![c] = "admitted"]
                 /\ UNCHANGED henv
            ELSE /\ hpc' = [hpc EXCEPT ![c] = "returned"]
                 /\ henv' = [henv EXCEPT ![c] = RejectionEnvelope(validation[1])]
  /\ hcommand' = [hcommand EXCEPT ![c] = raw]
  /\ UNCHANGED << max_completed_sessions, sessions, completed_sessions, sessionVars,
                  childVars, executeVars, cpc, readVars, termVars, blocked_commands,
                  vcommand, vresult, vprev, kill_env, harg,
                  listed,
                  raised, slices, lockVars >>

\* result = await terminal_manager.execute_command(...) has returned: build the
\* envelope.
HandleExecuteRespond(c) ==
  /\ hpc[c] = "admitted"
  /\ epc[c] = "returned"
  /\ henv' = [henv EXCEPT ![c] = ResultEnvelope(result[c])]
  /\ hpc' = [hpc EXCEPT ![c] = "returned"]
  /\ UNCHANGED << max_completed_sessions, sessions, completed_sessions, sessionVars,
                  childVars, executeVars, cpc, readVars, termVars, blocked_commands,
                  vcommand, vresult, vprev, hcommand, hvalid, kill_env, harg,
                  listed,
                  raised, slices, lockVars >>

\* SpecAdmit: handle_execute_command calls, each going through the admission
\* filter before terminal_manager.execute_command, with their collectors and
\* children.
NextAdmit ==
  \/ \E c \in SIDS, raw \in AdmitCommands : HandleExecuteEmpty(c, raw)
  \/ \E c \in SIDS, raw \in AdmitCommands, raises \in BOOLEAN :
       \E order \in Orders(ExtractCommands(Strip(raw))) :
         HandleExecuteValidate(c, raw, order, raises)
  \/ \E c \in SIDS : hpc[c] = "admitted" /\ ExecuteSpawnRaises(c)
  \/ \E c \in SIDS : hpc[c] = "admitted" /\ ExecuteNoPid(c)
  \/ \E c \in SIDS, p \in PIDS, t \in 0..MaxTimeout :
       hpc[c] = "admitted" /\ ExecuteSpawn(c, p, t)
  \/ \E c \in SIDS : ExecutePollExited(c)
  \/ \E c \in SIDS, d \in 1..MaxTimeout : ExecutePollRunning(c, d)
  \/ \E c \in SIDS : ExecuteReturnCompleted(c)
  \/ \E c \in SIDS : ExecuteTimeout(c)
  \/ \E s \in SIDS : CollectorPoll(s)
  \/ \E s \in SIDS : CollectorReadline(s)
  \/ \E s \in SIDS : CollectorDrain(s)
  \/ \E s \in SIDS : CollectorPromote(s)
  \/ \E c \in SIDS : HandleExecuteRespond(c)
  \/ \E s \in SIDS, line \in Lines : ChildWrite(s, line, MaxLines)
  \/ \E s \in SIDS : ChildExit(s, 0)

SpecAdmit == Init /\ [][NextAdmit]_vars

\* ------------------------------------------------------ the pid argument
\* args.get("pid") as the caller may give it: a str, None, or an int.
NonIntPids == { [type |-> "str", value |-> "1"], [type |-> "NoneType", value |-> "None"] }
PidArgs == NonIntPids \cup { [type |-> "int", value |-> PidStr(p)] : p \in PIDS }

\* isinstance(pid, int)
IsInstanceInt(a) == a.type = "int"

BadPidEnvelopeNotError == Envelope(<< "Error: PID must be an integer" >>, FALSE)
BadPidEnvelope == Envelope(<< "Error: PID must be an integer" >>, TRUE)

\* handle_read_output: if not isinstance(pid, int): return the error.
HandleReadBadPid(a) ==
  /\ rpc = "idle"
  /\ ~IsInstanceInt(a)
  /\ rlast' = BadPidEnvelope
  /\ harg' = Some([tool |-> "read_output", pid |-> a])
  /\ UNCHANGED << max_completed_sessions, sessions, completed_sessions, sessionVars,
                  childVars, executeVars, cpc, rpc, rpid, rpolls, delivered, handed,
                  termVars, blocked_commands, vcommand, vresult, vprev, hpc, hcommand,
                  hvalid, henv, kill_env,
                  listed,
                  raised, slices, lockVars >>

\* handle_force_terminate: if not isinstance(pid, int): return the error.
HandleForceTerminateBadPid(a) ==
  /\ ~IsInstanceInt(a)
  /\ ft_env' = BadPidEnvelope
  /\ harg' = Some([tool |-> "force_terminate", pid |-> a])
  /\ UNCHANGED << max_completed_sessions, sessions, completed_sessions, sessionVars,
                  childVars, executeVars, cpc, readVars, timer, ft_true, ft_pid, ft_last,
                  blocked_commands, vcommand, vresult, vprev, hpc, hcommand, hvalid,
                  henv, kill_env,
                  listed,
                  raised, slices, lockVars >>

\* handle_kill_process: if not isinstance(pid, int): return the error.
HandleKillProcessBadPid(a) ==
  /\ ~IsInstanceInt(a)
  /\ kill_env' = BadPidEnvelope
  /\ harg' = Some([tool |-> "kill_process", pid |-> a])
  /\ UNCHANGED << max_completed_sessions, sessions, completed_sessions, sessionVars,
                  childVars, executeVars, cpc, readVars, termVars, blocked_commands,
                  vcommand, vresult, vprev, hpc, hcommand, hvalid, henv, listed,
                  raised, slices, lockVars >>

\* SpecInput: tool calls whose arguments fail the handlers' input checks, made
\* while an execute_command call, its collector and its child run.
NextInput ==
  \/ Calls(ReadSIDS)
  \/ \E s \in ReadSIDS, line \in Lines : ChildWrite(s, line, MaxLines)
  \/ \E s \in ReadSIDS : ChildExit(s, 0)
  \/ \E c \in SIDS \ ReadSIDS, raw \in AdmitCommands : HandleExecuteEmpty(c, raw)
  \/ \E a \in PidArgs : HandleReadBadPid(a)
  \/ \E a \in PidArgs : HandleForceTerminateBadPid(a)
  \/ \E a \in PidArgs : HandleKillProcessBadPid(a)

SpecInput == Init /\ [][NextInput]_vars

\* SpecRespond: one handle_execute_command call from its arguments to its envelope,
\* with a child that writes up to MaxReadLines lines and exits with any code.
NextRespond ==
  \/ \E c \in ReadSIDS, raw \in AdmitCommands : HandleExecuteEmpty(c, raw)
  \/ \E c \in ReadSIDS, raw \in AdmitCommands, raises \in BOOLEAN :
       \E order \in Orders(ExtractCommands(Strip(raw))) :
         HandleExecuteValidate(c, raw, order, raises)
  \/ \E c \in ReadSIDS : hpc[c] = "admitted" /\ ExecuteSpawnRaises(c)
  \/ \E c \in ReadSIDS : hpc[c] = "admitted" /\ ExecuteNoPid(c)
  \/ \E c \in ReadSIDS, p \in PIDS, t \in 0..MaxTimeout :
       hpc[c] = "admitted" /\ ExecuteSpawn(c, p, t)
  \/ \E c \in ReadSIDS : ExecutePollExited(c)
  \/ \E c \in ReadSIDS, d \in 1..MaxTimeout : ExecutePollRunning(c, d)
  \/ \E c \in ReadSIDS : ExecuteReturnCompleted(c)
  \/ \E c \in ReadSIDS : ExecuteTimeout(c)
  \/ \E s \in ReadSIDS : CollectorPoll(s)
  \/ \E s \in ReadSIDS : CollectorReadline(s)
  \/ \E s \in ReadSIDS : CollectorDrain(s)
  \/ \E s \in ReadSIDS : CollectorPromote(s)
  \/ \E c \in ReadSIDS : HandleExecuteRespond(c)
  \/ \E s \in ReadSIDS, line \in Lines : ChildWrite(s, line, MaxReadLines)
  \/ \E s \in ReadSIDS, code \in ExitCodes : ChildExit(s, code)

SpecRespond == Init /\ [][NextRespond]_vars

\* SpecValidate: validate_command as a function of its command, for every command
\* made of at most MaxChunks of the pieces below, and of the order in which the set
\* of extracted base commands is iterated.
Chunks == { << "S", "u" >>, << "l", "s" >>, << "r", "d", " ", "/", "s" >>,
            << " " >>, << ";" >>, << "&" >>, << "\"" >>,
            << " ", ">", "/", "d", "e", "v", "/" >> }

RECURSIVE CommandsOfLength(_)
CommandsOfLength(n) ==
  IF n = 0 THEN { <<>> }
  ELSE { c \o k : c \in CommandsOfLength(n - 1), k \in Chunks }

Commands == UNION { CommandsOfLength(n) : n \in 0..MaxChunks }

InitValidate ==
  /\ InitManager
  /\ blocked_commands = DefaultBlockedCommands
  /\ vcommand \in Commands
  /\ vresult = None
  /\ vprev = None

\* command_manager.validate_command(vcommand)
ValidateCall(order) ==
  /\ order \in Orders(ExtractCommands(vcommand))
  /\ vresult' = Some(ValidateCommand(vcommand, order, blocked_commands, FALSE))
  /\ vprev' = vresult
  /\ UNCHANGED << max_completed_sessions, sessions, completed_sessions, sessionVars,
                  childVars, executeVars, cpc, readVars, termVars, blocked_commands,
                  vcommand, hpc, hcommand, hvalid, henv, kill_env, harg,
                  listed,
                  raised, slices, lockVars >>

NextValidate == \E order \in Orders(ExtractCommands(vcommand)) : ValidateCall(order)

SpecValidate == InitValidate /\ [][NextValidate]_vars

\* SpecDeny: a CommandManager constructed with the default list or with a list of
\* the caller, then add_blocked_command, remove_blocked_command and
\* validate_command calls.
DenyTokens == { << "S", "u" >>, << "s", "u" >>, << "l", "s" >>, << "L", "s" >> }

\* The blocked_commands argument of the constructor: None or a list (its elements)
CallerLists == { None } \cup { Some(l) : l \in SUBSET DenyTokens }

\* set(blocked_commands or self._get_default_blocked_commands())
CommandManagerInit(lst) ==
  IF lst = None \/ lst[1] = {} THEN DefaultBlockedCommands ELSE lst[1]

\* self.blocked_commands.add(command.lower())
BlockedAfterAdd(blocked, command) == blocked \cup { Lower(command) }

\* self.blocked_commands.discard(command.lower())
BlockedAfterRemove(blocked, command) == blocked \ { Lower(command) }

InitDeny ==
  /\ InitManager
  /\ \E lst \in CallerLists : blocked_commands = CommandManagerInit(lst)
  /\ vcommand \in DenyTokens
  /\ vresult = None
  /\ vprev = None

AddBlockedCommand(command) ==
  /\ blocked_commands' = BlockedAfterAdd(blocked_commands, command)
  /\ UNCHANGED << max_completed_sessions, sessions, completed_sessions, sessionVars,
                  childVars, executeVars, cpc, readVars, termVars, vcommand, vresult,
                  vprev, hpc, hcommand, hvalid, henv, kill_env, harg, listed,
                  raised, slices, lockVars >>

RemoveBlockedCommand(command) ==
  /\ blocked_commands' = BlockedAfterRemove(blocked_commands, command)
  /\ UNCHANGED << max_completed_sessions, sessions, completed_sessions, sessionVars,
                  childVars, executeVars, cpc, readVars, termVars, vcommand, vresult,
                  vprev, hpc, hcommand, hvalid, henv, kill_env, harg, listed,
                  raised, slices, lockVars >>

NextDeny ==
  \/ \E command \in DenyTokens : AddBlockedCommand(command)
  \/ \E command \in DenyTokens : RemoveBlockedCommand(command)
  \/ \E order \in Orders(ExtractCommands(vcommand)) : ValidateCall(order)

SpecDeny == InitDeny /\ [][NextDeny]_vars

\* ------------------------------------------------------------------ C1
\* C1: no pid is at the same time a key of the active map and of the completed
\* store.
C1_ActiveCompletedDisjoint ==
  DOMAIN sessions \cap DOMAIN completed_sessions = {}

\* ------------------------------------------------------------------ C2
\* C2: the completed store never holds more than max_completed_sessions entries
\* (every promotion is one step, so "after every promotion" is every state).
C2_CompletedBounded ==
  Cardinality(DOMAIN completed_sessions) <= max_completed_sessions

\* Both calls were promoted under different pids into a store of capacity >= 1 that
\* is full: the second promotion evicted.
C2_Witness ==
  /\ max_completed_sessions >= 1
  /\ \A s \in SIDS : cpc[s] = "done"
  /\ \E s, u \in SIDS : pid[s] # pid[u]
  /\ Cardinality(DOMAIN completed_sessions) = max_completed_sessions

\* ------------------------------------------------------------------ C3
\* C3: the concatenation of the slices get_new_output returned for a session while
\* it was active only grows by appending, and is at every moment a prefix of the
\* session's output, and of the final_output stored when the session completes.
C3_ReadsArePrefix ==
  [][ /\ \A s \in SIDS :
           /\ IsPrefix(delivered[s], delivered'[s])
           /\ IsPrefix(delivered'[s], Join(output_lines'[s]))
      /\ \A p \in DOMAIN completed_sessions' :
           IsPrefix(delivered'[completed_sessions'[p].command],
                    completed_sessions'[p].final_output) ]_vars

\* A read returned the first unit of an active session while the second was still to
\* be read: reads interleave with the collector's appends.
C3_Witness ==
  \E s \in SIDS :
    /\ pid[s] \in DOMAIN sessions
    /\ sessions[pid[s]] = s
    /\ Len(output_lines[s]) = 2
    /\ last_read_offset[s] = 1
    /\ delivered[s] = output_lines[s][1]

\* ------------------------------------------------------------------ C4
\* C4: between two read_output calls of the one caller, the texts the handler has
\* returned for a session are exactly the output consumed from its buffer: nothing
\* consumed is left undelivered, nothing is delivered twice.
C4_NoGapNoOverlap ==
  rpc = "idle" => \A s \in SIDS : handed[s] = delivered[s]

\* ------------------------------------------------------------------ C5
ReturnedBlocked(s) == epc[s] = "returned" /\ result[s].is_blocked

\* The first n lines the child wrote are in the session's output.
Appended(s, n) ==
  /\ Len(written[s]) >= n
  /\ IsPrefix(Join(SubSeq(written[s], 1, n)), Join(output_lines[s]))

C6_CompletedSnapshotFull ==
  \A c \in SIDS :
    (epc[c] = "returned" /\ result[c].pid > 0 /\ ~result[c].is_blocked)
      => result[c].initial_output = Join(written[c])

\* ------------------------------------------------------------------ C7
\* read_output(p) returns the completed summary of session s.
SummaryObservable(s) ==
  GetNewOutputValue(pid[s]) = Some(Summary(CompletedSession(s)))

\* C7: for a call that returned is_blocked=True, the promotion that follows the
\* child's exit makes the completed summary of that session what read_output(pid)
\* returns (stated for a store of capacity >= 1).
C7_BlockedEndsInSummary ==
  [][ \A s \in SIDS :
        ( /\ max_completed_sessions >= 1
          /\ ReturnedBlocked(s)
          /\ cpc[s] = "promote"
          /\ cpc'[s] = "done" )
        => SummaryObservable(s)' ]_vars

\* ------------------------------------------------------------------ C8
\* C8: for a session force_terminate returned True for, the promotion that follows
\* the child's exit puts the session in the completed store, where read_output(pid)
\* returns its summary (stated for a store of capacity >= 1 and a child that the
\* delayed kill ended).
C8_TerminatedEndsCompleted ==
  [][ \A s \in SIDS :
        ( /\ max_completed_sessions >= 1
          /\ ft_true[s]
          /\ exit_status[s] = Some(SigKillCode)
          /\ cpc[s] = "promote"
          /\ cpc'[s] = "done" )
        => ( /\ pid[s] \in DOMAIN completed_sessions'
             /\ completed_sessions'[pid[s]].command = s
             /\ SummaryObservable(s)' ) ]_vars

\* ------------------------------------------------------------------ C9
\* C9: a call that spawned returns is_blocked=True, with the session's flag set,
\* exactly when its child was still running at the moment the bounded wait expired.
C9_BlockedIffAliveAtExpiry ==
  \A c \in SIDS :
    (epc[c] = "returned" /\ result[c].pid > 0)
      => /\ result[c].is_blocked <=> alive_at_expiry[c]
         /\ is_blocked_flag[c] <=> alive_at_expiry[c]

\* ----------------------------------------------------------------- C10
\* C10: a call whose spawn fails returns pid -1 with an error text and
\* is_blocked=False, and leaves the active map, the completed store, every session
\* and every collector as they were.
C10_SpawnFailureNoSession ==
  [][ \A c \in SIDS :
        (epc[c] = "idle" /\ epc'[c] = "returned")
        => /\ result'[c].pid = 0 - 1
           /\ result'[c].initial_output \in {SpawnErrorText, NoPidText}
           /\ ~result'[c].is_blocked
           /\ UNCHANGED << sessions, completed_sessions, sessionVars, childVars, cpc >> ]_vars

\* A spawn failed while the session of an earlier call was active.
C10_Witness ==
  \E c \in SIDS :
    /\ epc[c] = "returned"
    /\ result[c].pid = 0 - 1
    /\ \E d \in SIDS : d < c /\ pid[d] \in DOMAIN sessions /\ sessions[pid[d]] = d

\* ----------------------------------------------------------------- C17
\* C17: for every entry of the completed store, with exit code c, what
\* get_new_output (and so read_output) returns for its pid is the completed summary
\* with the text "exit code <c>" and the entry's final_output.
C17_CompletedSummaryExact ==
  \A p \in DOMAIN completed_sessions :
    GetNewOutputValue(p) =
      Some(<< "Process completed with exit code ",
              CodeStr(completed_sessions[p].exit_code),
              "\nRuntime: ", "<runtime>", "s\nFinal output:\n" >>
           \o completed_sessions[p].final_output)

\* ----------------------------------------------------------------- C18
\* C18: when read_output finds its pid in neither the active map nor the completed
\* store, get_new_output returns None, the handler answers with an error envelope,
\* and no map, session, cursor, child or collector changes.
C18_UnknownPidIsError ==
  [][ ( /\ rpc = "nosession"
        /\ rpc' = "idle"
        /\ rpid \notin (DOMAIN sessions \cup DOMAIN completed_sessions) )
      => /\ GetNewOutputValue(rpid) = None
         /\ rlast'.isError
         /\ rlast'.text = NoSessionText
         /\ UNCHANGED << sessions, completed_sessions, sessionVars, childVars, cpc,
                         delivered, handed >> ]_vars

\* read_output answered "No session found" for a pid in neither map while another
\* pid's session was active with output not yet read.
C18_Witness ==
  /\ rpc = "idle"
  /\ rlast = Envelope(NoSessionText, TRUE)
  /\ rpid \notin (DOMAIN sessions \cup DOMAIN completed_sessions)
  /\ \E p \in DOMAIN sessions :
       last_read_offset[sessions[p]] < Len(output_lines[sessions[p]])

\* ----------------------------------------------------------------- C19
\* What a tool call must leave alone: the maps, every session with its cursor and
\* output, every child, every execute_command call, collector and timer.
InputFrame ==
  UNCHANGED << sessions, completed_sessions, sessionVars, childVars, executeVars, cpc,
               delivered, timer, ft_true >>

\* C19: handle_execute_command with an empty or whitespace-only command, and
\* read_output, force_terminate and kill_process with a pid that is not an int,
\* return an error envelope and change nothing else.
C19_InputValidationNoEffect ==
  [][ /\ \A c \in SIDS :
           (hpc[c] = "idle" /\ hpc'[c] = "returned" /\ Strip(hcommand'[c]) = <<>>)
           => /\ henv'[c].isError
              /\ henv'[c].text = << "Error: Command cannot be empty" >>
              /\ InputFrame
      /\ (harg' # harg)
           => /\ LET envelope == CASE harg'[1].tool = "read_output" -> rlast'
                                   [] harg'[1].tool = "force_terminate" -> ft_env'
                                   [] OTHER -> kill_env'
                 IN  /\ envelope.isError
                     /\ envelope.text = << "Error: PID must be an integer" >>
              /\ InputFrame ]_vars

\* All four calls were made with invalid input, the last one force_terminate, while
\* a session was active with its child running and output not yet read.
C19_Witness ==
  /\ harg # None
  /\ harg[1].tool = "force_terminate"
  /\ rlast = BadPidEnvelope
  /\ ft_env = BadPidEnvelope
  /\ kill_env = BadPidEnvelope
  /\ \E c \in SIDS : /\ hpc[c] = "returned"
                      /\ hcommand[c] = << " " >>
                      /\ henv[c] = EmptyCommandEnvelope
  /\ \E p \in DOMAIN sessions :
       /\ proc[sessions[p]] = "running"
       /\ last_read_offset[sessions[p]] < Len(output_lines[sessions[p]])

\* ----------------------------------------------------------------- C20
\* C20: a force_terminate call whose pid is not in the active map returns False,
\* signals no child and starts no timer, and the handler's envelope for it is not an
\* error.
C20_MissingPidReturnsFalse ==
  [][ ( /\ << ft_pid, ft_last, ft_env >>' # << ft_pid, ft_last, ft_env >>
        /\ ft_pid' \notin DOMAIN sessions )
      => /\ ft_last' = Some(FALSE)
         /\ ~ft_env'.isError
         /\ UNCHANGED << sessions, completed_sessions, childVars, timer, ft_true >> ]_vars

\* force_terminate returned False for a pid already promoted to the completed store
\* while another session was active with its child running.
C20_Witness ==
  /\ ft_last = Some(FALSE)
  /\ ft_pid \in DOMAIN completed_sessions
  /\ ft_pid \notin DOMAIN sessions
  /\ \E p \in DOMAIN sessions : proc[sessions[p]] = "running"

\* ----------------------------------------------------------------- C11
\* C11: a handle_execute_command call whose command the validation rejects returns
\* the error envelope with the validator's reason, and that step changes no map, no
\* session, no child and no collector; and every call for which execute_command has
\* started or a child exists passed the validation first.
C11_RejectedNeverSpawned ==
  [][ /\ \A c \in SIDS :
           (hpc[c] = "idle" /\ hvalid'[c] # None /\ ~hvalid'[c][1].is_valid)
           => /\ hpc'[c] = "returned"
              /\ henv'[c].isError
              /\ henv'[c].text = << "Error: " >> \o hvalid'[c][1].reason
              /\ UNCHANGED << sessions, completed_sessions, sessionVars, childVars,
                              executeVars, cpc >>
      /\ \A c \in SIDS :
           (epc'[c] # "idle" \/ proc'[c] # "none")
           => (hvalid'[c] # None /\ hvalid'[c][1].is_valid) ]_vars

\* A denylisted command was rejected while the session of an earlier call was
\* active with its child running.
C11_Witness ==
  \E c \in SIDS :
    /\ hpc[c] = "returned"
    /\ hvalid[c] # None
    /\ hvalid[c][1].reason = BlockedReason(<< "s", "u" >>)
    /\ henv[c].isError
    /\ epc[c] = "idle"
    /\ \E d \in SIDS : /\ pid[d] \in DOMAIN sessions
                        /\ sessions[pid[d]] = d
                        /\ proc[d] = "running"

\* ----------------------------------------------------------------- C12
\* C12: when a base command of the command (the lowercased first token of the
\* command or of a fragment after a separator) is in the denylist, validate_command
\* returns invalid with the reason "Blocked command: <name>" for a denylisted base
\* command of it, whatever else the command contains.
C12_DenylistedIsBlocked ==
  (vresult # None /\ ExtractCommands(vcommand) \cap blocked_commands # {})
    => /\ ~vresult[1].is_valid
       /\ \E name \in ExtractCommands(vcommand) \cap blocked_commands :
            vresult[1].reason = BlockedReason(name)

\* ----------------------------------------------------------------- C13
\* C13: a non-empty command whose lowercased text matches a dangerous pattern is
\* invalid, whatever base commands are extracted from it.
C13_DangerousIsInvalid ==
  (vresult # None /\ vcommand # <<>> /\ CheckDangerousPatterns(vcommand))
    => ~vresult[1].is_valid

\* ----------------------------------------------------------------- C14
\* C14: a command during whose validation an exception was raised is not rejected:
\* handle_execute_command goes on to execute_command with it.
C14_FailOpenOnValidatorException ==
  \A c \in SIDS :
    (hvalid[c] # None /\ hvalid[c][1].reason = ValidationErrorReason)
      => (hpc[c] = "admitted" \/ epc[c] # "idle")

\* ----------------------------------------------------------------- C15
\* A denylist entry that contains whitespace.
MultiWord(entry) == \E i \in 1..Len(entry) : IsSpace(entry[i])

\* The command has a quote or an escape character.
UsesQuoting(command) ==
  \E i \in 1..Len(command) : command[i] \in ShlexQuotes \cup { ShlexEscape }

\* C15 as stated: validate_command never returns "Blocked command: X" with X a
\* multi-word denylist entry, shell quoting around the first token included.
C15_MultiWordNeverMatches ==
  vresult # None =>
    \A entry \in blocked_commands :
      MultiWord(entry) => vresult[1].reason # BlockedReason(entry)

\* C15 as amended: for a command without quote and escape characters,
\* validate_command never returns "Blocked command: X" with X a multi-word entry.
C15_MultiWordNeverMatchesUnquoted ==
  (vresult # None /\ ~UsesQuoting(vcommand)) =>
    \A entry \in blocked_commands :
      MultiWord(entry) => vresult[1].reason # BlockedReason(entry)

\* A command that starts with the multi-word entry "rd /s", unquoted, was validated
\* and found valid.
C15_Witness ==
  /\ vresult # None
  /\ ~UsesQuoting(vcommand)
  /\ StartsWith(vcommand, << "r", "d", " ", "/", "s" >>)
  /\ << "r", "d", " ", "/", "s" >> \in blocked_commands
  /\ vresult[1].is_valid

\* ----------------------------------------------------------------- C16
\* C16: a validate_command call leaves the denylist as it was and gives the verdict
\* the call before it gave for the command, whatever the order in which the two
\* calls iterated the set of base commands.
C16_ValidateIdempotent ==
  [][ (vresult' # vresult \/ vprev' # vprev)
      => /\ blocked_commands' = blocked_commands
         /\ vresult # None => vresult'[1].is_valid = vresult[1].is_valid ]_vars

\* Two calls on the one command iterated its base commands in different orders and
\* so gave different reasons.
C16_Witness ==
  /\ vprev # None
  /\ vresult # None
  /\ vprev[1].reason # vresult[1].reason
  /\ vprev[1].is_valid = vresult[1].is_valid

\* ----------------------------------------------------------------- C23
\* C23: while the child of a call that returned is_blocked=True runs, the listing
\* has an entry for its pid with is_blocked true (and the handler's text the line for
\* it); and an active session whose call is still in its bounded wait is listed with
\* is_blocked false.
C23_BlockedSessionListed ==
  \A s \in SIDS :
    /\ (ReturnedBlocked(s) /\ proc[s] = "running")
         => /\ \E info \in ListActiveSessions : info.pid = pid[s] /\ info.is_blocked
            /\ << "PID: ", PidStr(pid[s]), ", Blocked: ", "True",
                  ", Runtime: ", "<runtime>", "s" >> \in HandleListSessionsLines
    /\ (epc[s] \in {"wait", "exited"} /\ pid[s] \in DOMAIN sessions /\ sessions[pid[s]] = s)
         => \E info \in ListActiveSessions : info.pid = pid[s] /\ ~info.is_blocked

C25_EvictsOldest ==
  [][ \A s \in SIDS :
        (max_completed_sessions >= 1 /\ cpc[s] = "promote" /\ cpc'[s] = "done")
        => /\ pid[s] \in DOMAIN completed_sessions'
           /\ completed_sessions'[pid[s]] = CompletedSession(s) ]_vars

\* ----------------------------------------------------------------- C21
\* The PID format: starts "Command started with PID <pid>", ends with the guidance.
PidFormat(text, p) ==
  /\ StartsWith(text, << "Command started with PID ", PidStr(p) >>)
  /\ text[Len(text)] = "\nCommand is still running. Use read_output to get more output."

\* The direct output: the stripped snapshot, or "(no output)".
DirectOutput(text, out) ==
  text = IF Strip(out) # <<>> THEN Strip(out) ELSE << "(no output)" >>

\* C21: for a call that spawned, the handler's text has the PID format exactly when
\* the manager's result is blocked, and is the direct output, and not the PID
\* format, exactly when the child had finished when the bounded wait ended.
C21_PidFormatIffBlocked ==
  \A c \in SIDS :
    (hpc[c] = "returned" /\ epc[c] = "returned" /\ result[c].pid > 0)
      => /\ PidFormat(henv[c].text, result[c].pid) <=> result[c].is_blocked
         /\ ( /\ DirectOutput(henv[c].text, result[c].initial_output)
              /\ ~PidFormat(henv[c].text, result[c].pid) ) <=> ~alive_at_expiry[c]

C27_CursorBoundedMonotone ==
  [][\A s \in SIDS :
       /\ 0 <= last_read_offset[s]
       /\ last_read_offset[s] <= Len(output_lines[s])
       /\ 0 <= last_read_offset'[s]
       /\ last_read_offset'[s] <= Len(output_lines'[s])
       /\ last_read_offset[s] <= last_read_offset'[s]]_vars

\* An active session whose two lines have all been read: the cursor has advanced
\* to its upper bound, the length of the output.
C27_Witness ==
  \E s \in SIDS :
    /\ pid[s] \in DOMAIN sessions
    /\ sessions[pid[s]] = s
    /\ last_read_offset[s] = 2
    /\ Len(output_lines[s]) = 2

\* ----------------------------------------------------------------- C30
\* The steps of execute_command call c.
ExecuteStepTaken(c) ==
  epc'[c] # epc[c] \/ deadline'[c] # deadline[c] \/ result'[c] # result[c]

\* execute_command has returned a pid for c and no get_new_output call has yet
\* taken a unit of the session's output.
ReturnedUnread(c) ==
  /\ epc[c] = "returned"
  /\ result[c].pid > 0
  /\ delivered[c] = <<>>

\* C30: no step of execute_command changes last_read_offset; once execute has
\* returned a pid and no read has taken output of the session, the cursor is 0 and,
\* while the session is active, get_new_output returns a text that has the initial
\* output of the result as a prefix.
C30_SnapshotKeepsCursor ==
  [][\A c \in SIDS :
       /\ ExecuteStepTaken(c) => last_read_offset'[c] = last_read_offset[c]
       /\ ReturnedUnread(c)' =>
            /\ last_read_offset'[c] = 0
            /\ (pid'[c] \in DOMAIN sessions' /\ sessions'[pid'[c]] = c)
                 => /\ GetNewOutputValue(pid[c])' # None
                    /\ IsPrefix(result'[c].initial_output,
                                GetNewOutputValue(pid[c])'[1])]_vars

\* execute returned blocked with a one-line snapshot, nothing has been read, the
\* session is active and has a second line by now: the next get_new_output returns
\* both lines.
C30_Witness ==
  \E c \in SIDS :
    /\ ReturnedUnread(c)
    /\ result[c].is_blocked
    /\ result[c].initial_output = << "a", "\n" >>
    /\ pid[c] \in DOMAIN sessions
    /\ sessions[pid[c]] = c
    /\ last_read_offset[c] = 0
    /\ GetNewOutputValue(pid[c]) = Some(<< "a", "\n", "a", "\n" >>)

\* ----------------------------------------------------------------- C28
\* C28: in every step, each session's output before the step is a prefix of its
\* output after the step: units are only appended, never removed or rewritten.
C28_OutputGrowsByAppend ==
  [][\A s \in SIDS : IsPrefix(output_lines[s], output_lines'[s])]_vars


\* A session with two different units of output that was read while active,
\* terminated by force_terminate and promoted: its output still has both units.
C28_Witness ==
  \E s \in SIDS :
    /\ Len(output_lines[s]) = 2
    /\ output_lines[s][1] # output_lines[s][2]
    /\ last_read_offset[s] >= 1
    /\ ft_true[s]
    /\ epc[s] = "returned"
    /\ pid[s] \in DOMAIN completed_sessions
    /\ completed_sessions[pid[s]].final_output = Join(output_lines[s])

\* ----------------------------------------------------------------- C29
\* C29: no step resets a session's is_blocked_flag to false, and the only step that
\* changes it is the end of the bounded wait of the execute_command call that
\* created the session, which returns is_blocked = true for the session's pid.
C29_BlockedFlagSetOnceByExecute ==
  [][\A s \in SIDS :
       /\ is_blocked_flag[s] => is_blocked_flag'[s]
       /\ (is_blocked_flag'[s] # is_blocked_flag[s])
            => /\ epc[s] = "wait"
               /\ deadline[s] = 0
               /\ epc'[s] = "returned"
               /\ result'[s].is_blocked
               /\ result'[s].pid = pid[s]]_vars

\* A session whose flag was set at the timeout, which was then listed as blocked,
\* read, terminated by force_terminate and promoted by its collector: the flag is
\* still set.
C29_Witness ==
  \E s \in SIDS :
    /\ is_blocked_flag[s]
    /\ listed = Some({ SessionLine([pid |-> pid[s], command |-> s, is_blocked |-> TRUE]) })
    /\ rlast # NoEnvelope
    /\ ft_true[s]
    /\ cpc[s] = "done"


\* ----------------------------------------------------------------- C26
\* A step of the polling part of handle_read_output.
ReadPollStepTaken == rpc = "poll" /\ (rpc' # rpc \/ rpolls' # rpolls)

\* C26: a turn of read_output's polling on an active session that finds non-empty
\* output returns that output at once; the turn at the deadline returns, with the
\* output available or else with the "No new output available (timeout reached)" text.
C26_ReadReturnsNonEmptyOutput ==
  [][ReadPollStepTaken =>
       LET v == GetNewOutputValue(rpid)
       IN  /\ Truthy(v) => (rpc' = "idle" /\ rlast' = Envelope(v[1], FALSE))
           /\ rpolls = 0 => rpc' = "idle"
           /\ (rpolls = 0 /\ ~Truthy(v))
                => rlast' = Envelope(NoNewOutputText, FALSE)]_vars


\* ----------------------------------------------------------------- C36
\* C36: whenever execute_command stores a new session in the active map, the pid
\* it stores it under was, just before, a key neither of the active map nor of the
\* completed store.
C36_InsertedPidAbsent ==
  [][\A c \in SIDS :
       (epc[c] = "idle" /\ epc'[c] = "wait")
         => /\ pid'[c] \notin DOMAIN sessions
            /\ pid'[c] \notin DOMAIN completed_sessions]_vars

\* ----------------------------------------------------------------- C37
\* C37: the promotion of session s leaves every entry of the active map that holds
\* another session where it is.
C37_PromotionRemovesOnlyItself ==
  [][\A s \in SIDS :
       (cpc[s] = "promote" /\ cpc'[s] = "done")
         => \A p \in DOMAIN sessions :
              sessions[p] # s
                => (p \in DOMAIN sessions' /\ sessions'[p] = sessions[p])]_vars

\* ----------------------------------------------------------------- C34
\* Session s has been stored in the active map and its collector has not promoted it.
NotYetPromoted(s) == cpc[s] \in {"poll", "readline", "drain", "promote"}

\* Session s has been promoted and its entry is still in the completed store.
PromotedNotEvicted(s) ==
  /\ cpc[s] = "done"
  /\ pid[s] \in DOMAIN completed_sessions
  /\ completed_sessions[pid[s]].command = s

\* C34: from the insertion of a session under pid p until its entry is evicted from
\* the completed store, p is a key of exactly one of the two maps and
\* get_new_output(p) does not return None.
C34_PromotionAtomic ==
  \A s \in SIDS :
    (NotYetPromoted(s) \/ PromotedNotEvicted(s))
      => /\ (pid[s] \in DOMAIN sessions) # (pid[s] \in DOMAIN completed_sessions)
         /\ GetNewOutputValue(pid[s]) # None


\* ----------------------------------------------------------------- C39
\* A step of force_terminate or of the timer it started.
TerminateStepTaken == termVars' # termVars

C40_DenylistLowercased ==
  /\ \A entry \in blocked_commands : entry = Lower(entry)
  /\ \A c \in DenyTokens :
       (\E entry \in blocked_commands : Lower(entry) = GetBaseCommand(c))
         => \A order \in Orders(ExtractCommands(c)) :
              ~ValidateCommand(c, order, blocked_commands, FALSE).is_valid
  /\ \A c \in DenyTokens :
       c \notin blocked_commands
         => BlockedAfterRemove(BlockedAfterAdd(blocked_commands, c), c) = blocked_commands


\* ----------------------------------------------------------------- C33
\* C33: every entry of the completed store belongs to a child that has exited and
\* carries the exit code of that exit, also when a read of the collector raised.
C33_CompletedHasExited ==
  \A p \in DOMAIN completed_sessions :
    LET cs == completed_sessions[p]
    IN  /\ proc[cs.command] \in {"zombie", "reaped"}
        /\ exit_status[cs.command] # None
        /\ cs.exit_code = exit_status[cs.command]

\* ----------------------------------------------------------------- C32
\* C32: when no read of its collector raised, the final_output stored for a
\* completed session is exactly what its child wrote, in the order written.
C32_FinalOutputIsAllWritten ==
  \A p \in DOMAIN completed_sessions :
    LET cs == completed_sessions[p]
    IN  ~raised[cs.command] => cs.final_output = Join(written[cs.command])

\* A completed session, none of whose reads raised, whose child wrote two different
\* lines that were stored as two units: the final output is both, in order.
C32_Witness ==
  \E p \in DOMAIN completed_sessions :
    LET cs == completed_sessions[p]
    IN  /\ ~raised[cs.command]
        /\ Len(written[cs.command]) = 2
        /\ written[cs.command][1] # written[cs.command][2]
        /\ output_lines[cs.command] = written[cs.command]
        /\ cs.final_output = Join(written[cs.command])


\* ----------------------------------------------------------------- C31
\* The units of output a recorded get_new_output call returned.
SliceRange(sl) == (sl.lo + 1)..sl.hi

ListedActive(s) == pid[s] \in DOMAIN sessions /\ sessions[pid[s]] = s

\* C38: a session whose child has exited, by itself or after force_terminate, is
\* eventually no longer in the active map.
C38_ExitedEventuallyRemoved ==
  \A s \in SIDS : (exit_status[s] # None) ~> ~ListedActive(s)

\* A session force_terminate returned True for, whose child then exited by itself
\* before the timer fired, has been promoted by its collector and is out of the
\* active map.
C38_Witness ==
  \E s \in SIDS :
    /\ ft_true[s]
    /\ timer[s] = "armed"
    /\ exit_status[s] = Some(0)
    /\ cpc[s] = "done"
    /\ ~ListedActive(s)


\* ----------------------------------------------------------------- C35
\* C35: no thread reads or writes shared session state without holding the lock,
\* and no thread sleeps or reads the child's stream while holding it.
C35_LockHeldForSharedState ==
  /\ unlocked = {}
  /\ lock_blocked = {}

====
